---- MODULE Spec2Model ----
(***************************************************************************)
(* Landed-cost engine (calculations.py) and reverse FOB solver (app.py) of *)
(* the import cost simulator.                                              *)
(*                                                                         *)
(* Python floats are modelled as exact extended rationals <<n, d>> in      *)
(* lowest terms with d >= 0.  d = 0 encodes the non-finite IEEE values the *)
(* engine can produce by dividing by 0.0: <<1,0>> = +inf, <<-1,0>> = -inf  *)
(* and <<0,0>> = NaN.                                                      *)
(***************************************************************************)
EXTENDS Integers, Sequences, FiniteSets, TLC

VARIABLES
    items_df,        \* caller's items table: sequence of item rows
    cfg,             \* caller's ShipmentConfig
    per_item,        \* per-item table returned by compute_landed_cost (<<>> before the call)
    summary,         \* summary dict returned by compute_landed_cost
    items_df2,       \* second engine run (for relational properties): items table
    cfg2,            \* second engine run: config
    per_item2,       \* second engine run: returned per-item table
    item_idx,        \* solver argument item_idx (1-based row position)
    target_unit_brl, \* solver argument target_unit_brl
    max_iter,        \* solver argument max_iter
    tol,             \* solver argument tol
    pc,              \* position inside solve_reverse_fob_for_item
    cost_min,        \* solver local cost_min
    low,             \* solver local low
    high,            \* solver local high
    cost_high,       \* solver local cost_high
    best_fob,        \* solver local best_fob
    best_cost,       \* solver local best_cost
    cost_mid,        \* solver local cost_mid of the last bisection iteration
    n_expand,        \* iterations of the expansion loop executed so far
    n_bisect,        \* iterations of the bisection loop executed so far
    ret,             \* value returned by solve_reverse_fob_for_item
    NCM_TABLE,       \* app.py: the table returned by load_ncm_tec_table
    ncm_input,       \* app.py: text typed in the NCM field
    matches,         \* app.py: rows offered as NCM suggestions
    reverse_result,  \* app.py: st.session_state["reverse_result"] (<<>> while the key is absent)
    reverse_item,    \* history: Description of the row the stored reverse_result was solved for
    applied,         \* history: Descriptions of the rows whose FOB_Unit_USD "apply" has changed
    pdf,             \* extractor.py: the PDF, a sequence of pages, each a sequence of lines
    max_pages,       \* extractor.py: argument max_pages
    page_index,      \* extractor.py: pages consumed so far
    line_index,      \* extractor.py: lines of the current page consumed so far
    rows,            \* extractor.py: rows collected so far
    current,         \* extractor.py: the pending block (<<>> for None)
    tipi_df          \* extractor.py: the returned table df (<<>> before the return)

engine_vars == <<items_df, cfg, per_item, summary>>
pair_vars   == <<items_df2, cfg2, per_item2>>
solver_vars == <<item_idx, target_unit_brl, max_iter, tol, pc, cost_min, low, high,
                 cost_high, best_fob, best_cost, cost_mid, n_expand, n_bisect, ret>>
ncm_vars    == <<NCM_TABLE, ncm_input, matches>>
ui_vars     == <<reverse_result, reverse_item, applied>>
tipi_vars   == <<pdf, max_pages, page_index, line_index, rows, current, tipi_df>>
aux_vars    == <<ncm_vars, ui_vars, tipi_vars>>
vars == <<items_df, cfg, per_item, summary, items_df2, cfg2, per_item2,
          item_idx, target_unit_brl, max_iter, tol, pc, cost_min, low, high,
          cost_high, best_fob, best_cost, cost_mid, n_expand, n_bisect, ret,
          NCM_TABLE, ncm_input, matches, reverse_result, reverse_item, applied,
          pdf, max_pages, page_index, line_index, rows, current, tipi_df>>

-----------------------------------------------------------------------------
(* Float arithmetic as exact extended rationals.                           *)

IAbs(i) == IF i < 0 THEN -i ELSE i

ISign(i) == IF i > 0 THEN 1 ELSE IF i < 0 THEN -1 ELSE 0

RECURSIVE GCD(_, _)
GCD(a, b) == IF b = 0 THEN a ELSE GCD(b, a % b)

\* the float n/d (d may be negative or 0), in lowest terms
Norm(n, d) ==
    IF d = 0 THEN <<ISign(n), 0>>
    ELSE LET g == GCD(IAbs(n), IAbs(d))
         IN  <<ISign(d) * (n \div g), IAbs(d) \div g>>

R(n, d) == Norm(n, d)

Zero == <<0, 1>>
One  == <<1, 1>>
PosInf == <<1, 0>>
NegInf == <<-1, 0>>
NaN    == <<0, 0>>

IsFinite(a) == a[2] # 0
IsNaN(a) == a = NaN

RNeg(a) == <<-a[1], a[2]>>

\* a + b
RAdd(a, b) ==
    IF IsFinite(a) /\ IsFinite(b)
    THEN LET g == GCD(a[2], b[2])
         IN  Norm(a[1] * (b[2] \div g) + b[1] * (a[2] \div g), (a[2] \div g) * b[2])
    ELSE IF IsNaN(a) \/ IsNaN(b) THEN NaN
    ELSE IF IsFinite(a) THEN b
    ELSE IF IsFinite(b) THEN a
    ELSE IF a = b THEN a ELSE NaN

RSub(a, b) == RAdd(a, RNeg(b))

\* a * b
RMul(a, b) ==
    IF IsFinite(a) /\ IsFinite(b)
    THEN LET g1 == GCD(IAbs(a[1]), b[2])
             g2 == GCD(IAbs(b[1]), a[2])
         IN  Norm((a[1] \div g1) * (b[1] \div g2), (a[2] \div g2) * (b[2] \div g1))
    ELSE IF IsNaN(a) \/ IsNaN(b) THEN NaN
    ELSE <<ISign(a[1]) * ISign(b[1]), 0>>

\* a / b, with IEEE results for a zero or non-finite divisor
RDiv(a, b) ==
    IF IsNaN(a) \/ IsNaN(b) THEN NaN
    ELSE IF IsFinite(b)
    THEN IF b[1] = 0 THEN <<ISign(a[1]), 0>>
         ELSE IF IsFinite(a) THEN RMul(a, Norm(b[2], b[1]))
         ELSE <<ISign(a[1]) * ISign(b[1]), 0>>
    ELSE IF IsFinite(a) THEN Zero ELSE NaN

\* an/ad < bn/bd for ad, bd > 0, by integer parts and then remainders (the products
\* an * bd and bn * ad need not fit the integer width)
RECURSIVE FracLt(_, _, _, _)
FracLt(an, ad, bn, bd) ==
    LET qa == an \div ad
        qb == bn \div bd
        ra == an % ad
        rb == bn % bd
    IN  IF qa # qb THEN qa < qb
        ELSE IF rb = 0 THEN FALSE
        ELSE IF ra = 0 THEN TRUE
        ELSE FracLt(bd, rb, ad, ra)

\* a < b (False when either side is NaN)
RLt(a, b) ==
    IF IsNaN(a) \/ IsNaN(b) THEN FALSE
    ELSE IF IsFinite(a) /\ IsFinite(b) THEN FracLt(a[1], a[2], b[1], b[2])
    ELSE IF IsFinite(a) THEN b = PosInf
    ELSE IF IsFinite(b) THEN a = NegInf
    ELSE a = NegInf /\ b = PosInf

\* a <= b (False when either side is NaN)
RLe(a, b) == ~IsNaN(a) /\ ~IsNaN(b) /\ ~RLt(b, a)

RGt(a, b) == RLt(b, a)
RGe(a, b) == RLe(b, a)

RAbs(a) == <<IAbs(a[1]), a[2]>>

\* pandas Series.sum(): 0 for an empty Series
RECURSIVE RSum(_)
RSum(s) == IF s = <<>> THEN Zero ELSE RAdd(Head(s), RSum(Tail(s)))

-----------------------------------------------------------------------------
(* calculations.py                                                         *)

\* item FOB values (items["FOB_Unit_USD"] * items["Quantity"])
FobSeries(items) == [i \in 1..Len(items) |-> RMul(items[i].FOB_Unit_USD, items[i].Quantity)]

IMax(a, b) == IF a >= b THEN a ELSE b

\* allocation whose fallback gives the whole amount to the first row
allocate_by_fob_FirstTakesAll(items, total_value) ==
    LET fob == FobSeries(items)
        fob_total == RSum(fob)
        share == IF RGt(fob_total, Zero)
                 THEN [i \in 1..Len(items) |-> RDiv(fob[i], fob_total)]
                 ELSE [i \in 1..Len(items) |-> IF i = 1 THEN One ELSE Zero]
    IN  [i \in 1..Len(items) |-> RMul(share[i], total_value)]

\* allocation by unit price, forgetting the quantity in the numerator
allocate_by_fob_UnitPrice(items, total_value) ==
    LET fob_total == RSum(FobSeries(items))
        n == IMax(Len(items), 1)
        share == IF RGt(fob_total, Zero)
                 THEN [i \in 1..Len(items) |-> RDiv(items[i].FOB_Unit_USD, fob_total)]
                 ELSE [i \in 1..Len(items) |-> R(1, n)]
    IN  [i \in 1..Len(items) |-> RMul(share[i], total_value)]

\* _allocate_by_fob: the Series share * total_value
allocate_by_fob(items, total_value) ==
    LET fob == FobSeries(items)
        fob_total == RSum(fob)
        n == IMax(Len(items), 1)
        share == IF RGt(fob_total, Zero)
                 THEN [i \in 1..Len(items) |-> RDiv(fob[i], fob_total)]
                 ELSE [i \in 1..Len(items) |-> R(1, n)]
    IN  [i \in 1..Len(items) |-> RMul(share[i], total_value)]

\* credits in which presumido is credited like real (PIS and COFINS too)
compute_tax_credits_per_item_PresumidoAsReal(row, c) ==
    IF c.regime = "simples" \/ c.purpose # "resale" THEN Zero
    ELSE RAdd(RAdd(RAdd(row.IPI_BRL, row.PIS_BRL), row.COFINS_BRL), row.ICMS_BRL)

\* _compute_tax_credits_per_item, for one row of df
compute_tax_credits_per_item(row, c) ==
    LET credit_ii == Zero
        zero5 == RAdd(RAdd(RAdd(RAdd(credit_ii, Zero), Zero), Zero), Zero)
        resale == c.purpose = "resale"
        credit_ipi == IF resale /\ c.regime \in {"presumido", "real"} THEN row.IPI_BRL ELSE Zero
        credit_pis == IF resale /\ c.regime = "real" THEN row.PIS_BRL ELSE Zero
        credit_cofins == IF resale /\ c.regime = "real" THEN row.COFINS_BRL ELSE Zero
        credit_icms == IF resale /\ c.regime \in {"presumido", "real"} THEN row.ICMS_BRL ELSE Zero
    IN  IF c.regime = "simples" THEN zero5
        ELSE RAdd(RAdd(RAdd(RAdd(credit_ii, credit_ipi), credit_pis), credit_cofins), credit_icms)

\* the column named by a va_components entry (va_components_map.get)
va_components_map(comp) ==
    CASE comp = "freight" -> "Freight_BRL"
      [] comp = "insurance" -> "Insurance_BRL"
      [] comp = "origin_charges" -> "Origin_BRL"
      [] comp = "thc_origin" -> "THC_Origin_BRL"
      [] OTHER -> "None"

\* a mapping that puts the trucking share into the ICMS base under the name siscomex
da_map_TruckingInBase(name) ==
    CASE name = "afrmm" -> "AFRMM_BRL"
      [] name = "siscomex" -> "Truck_BRL"
      [] OTHER -> "None"

\* the column named by a da_components entry (da_map.get)
da_map(da_name) ==
    CASE da_name = "afrmm" -> "AFRMM_BRL"
      [] da_name = "siscomex" -> "Siscomex_BRL"
      [] OTHER -> "None"

\* the loop "for comp in components: acc += row[col]" over a list of names
RECURSIVE AddComponents(_, _, _, _)
AddComponents(acc, comps, row, map_is_va) ==
    IF comps = <<>> THEN acc
    ELSE LET col == IF map_is_va THEN va_components_map(Head(comps)) ELSE da_map(Head(comps))
             acc2 == IF col # "None" THEN RAdd(acc, row[col]) ELSE acc
         IN  AddComponents(acc2, Tail(comps), row, map_is_va)

\* the gross-up with the denominator's sign slipped: N * r / (r - 1)
IcmsBrl_SignSlip(base_icms_numerator, icms_rate) ==
    IF RGt(icms_rate, Zero)
    THEN RDiv(RMul(base_icms_numerator, icms_rate), RSub(icms_rate, One))
    ELSE Zero

\* ICMS charged "por fora": the rate applied to the nominal base
IcmsBrl_PorFora(base_icms_numerator, icms_rate) ==
    IF RGt(icms_rate, Zero) THEN RMul(base_icms_numerator, icms_rate) ELSE Zero

\* ICMS "por dentro" of one row
IcmsBrl(base_icms_numerator, icms_rate) ==
    IF RGt(icms_rate, Zero)
    THEN RDiv(RMul(base_icms_numerator, icms_rate), RSub(One, icms_rate))
    ELSE Zero

\* an engine that lets a non-zero item ICMS_rate override the shipment rate
IcmsRateOf_ItemOverride(item, c) ==
    IF item.ICMS_rate # Zero THEN item.ICMS_rate ELSE c.icms_rate

\* the shipment rate used for every row: icms_rate = float(cfg.icms_rate)
IcmsRateOf(item, c) == c.icms_rate

\* direct costs that leave out the customs expenses AFRMM and Siscomex
DirectCosts_NoCustomsExpenses(fob_brl, costs) ==
    RAdd(RAdd(RAdd(RAdd(RAdd(RAdd(RAdd(fob_brl,
        costs.Freight_BRL), costs.Insurance_BRL), costs.Origin_BRL),
        costs.THC_Origin_BRL),
        costs.Local_Port_BRL), costs.Truck_BRL), costs.Other_Local_BRL)

\* Direct_costs_BRL of one row
DirectCosts(fob_brl, costs) ==
    RAdd(RAdd(RAdd(RAdd(RAdd(RAdd(RAdd(RAdd(RAdd(fob_brl,
        costs.Freight_BRL), costs.Insurance_BRL), costs.Origin_BRL),
        costs.THC_Origin_BRL), costs.AFRMM_BRL), costs.Siscomex_BRL),
        costs.Local_Port_BRL), costs.Truck_BRL), costs.Other_Local_BRL)

\* Landed_Cost_BRL of one row
LandedCost(direct_costs, net_tax_total) == RAdd(direct_costs, net_tax_total)

\* Unit_Cost_BRL of one row: Landed_Cost_BRL / Quantity.replace(0, 1.0)
UnitCost(landed, quantity) ==
    RDiv(landed, IF quantity = Zero THEN One ELSE quantity)

\* insurance that prefers the percentage whenever one is given
InsuranceUsd_PctFirst(c, fob_total_usd) ==
    IF RGt(c.insurance_pct, Zero) THEN RMul(fob_total_usd, c.insurance_pct)
    ELSE c.insurance_usd

\* shipment insurance in USD
InsuranceUsd(c, fob_total_usd) ==
    IF RGt(c.insurance_usd, Zero) THEN c.insurance_usd
    ELSE RMul(fob_total_usd, c.insurance_pct)

\* totals whose BRL-denominated costs are scaled by the exchange rate as well
CostTotals_LocalTimesFx(items, c) ==
    LET fx == c.fx_rate_usd_brl
        fob_total_usd == RSum(FobSeries(items))
    IN  [Freight_BRL    |-> RMul(c.freight_international_usd, fx),
         Insurance_BRL  |-> RMul(InsuranceUsd(c, fob_total_usd), fx),
         Origin_BRL     |-> RMul(c.origin_charges_usd, fx),
         THC_Origin_BRL |-> RMul(c.thc_origin_usd, fx),
         AFRMM_BRL      |-> RMul(RMul(c.afrmm_pct, c.freight_international_usd), fx),
         Siscomex_BRL   |-> RMul(c.siscomex_brl, fx),
         Local_Port_BRL |-> RMul(c.local_port_costs_brl, fx),
         Truck_BRL      |-> RMul(c.trucking_brl, fx),
         Other_Local_BRL |-> RMul(c.other_local_costs_brl, fx)]

\* totals whose AFRMM is charged on the FOB value instead of the freight
CostTotals_AfrmmOnFob(items, c) ==
    LET fx == c.fx_rate_usd_brl
        fob_total_usd == RSum(FobSeries(items))
    IN  [Freight_BRL    |-> RMul(c.freight_international_usd, fx),
         Insurance_BRL  |-> RMul(InsuranceUsd(c, fob_total_usd), fx),
         Origin_BRL     |-> RMul(c.origin_charges_usd, fx),
         THC_Origin_BRL |-> RMul(c.thc_origin_usd, fx),
         AFRMM_BRL      |-> RMul(RMul(c.afrmm_pct, fob_total_usd), fx),
         Siscomex_BRL   |-> c.siscomex_brl,
         Local_Port_BRL |-> c.local_port_costs_brl,
         Truck_BRL      |-> c.trucking_brl,
         Other_Local_BRL |-> c.other_local_costs_brl]

\* shipment-level totals in BRL of the nine allocated costs
CostTotals(items, c) ==
    LET fx == c.fx_rate_usd_brl
        fob_total_usd == RSum(FobSeries(items))
    IN  [Freight_BRL    |-> RMul(c.freight_international_usd, fx),
         Insurance_BRL  |-> RMul(InsuranceUsd(c, fob_total_usd), fx),
         Origin_BRL     |-> RMul(c.origin_charges_usd, fx),
         THC_Origin_BRL |-> RMul(c.thc_origin_usd, fx),
         AFRMM_BRL      |-> RMul(RMul(c.afrmm_pct, c.freight_international_usd), fx),
         Siscomex_BRL   |-> c.siscomex_brl,
         Local_Port_BRL |-> c.local_port_costs_brl,
         Truck_BRL      |-> c.trucking_brl,
         Other_Local_BRL |-> c.other_local_costs_brl]

CostColumns == {"Freight_BRL", "Insurance_BRL", "Origin_BRL", "THC_Origin_BRL", "AFRMM_BRL",
                "Siscomex_BRL", "Local_Port_BRL", "Truck_BRL", "Other_Local_BRL"}

\* the excise charged on the flat customs value
IpiBase_Flat(va, ii) == va

\* IPI_Base_BRL of one row
IpiBase(va, ii) == RAdd(va, ii)

\* the contributions charged on the customs value alone
PisCofBase_CustomsValue(va, ii, ipi) == va

\* PIS_COF_Base_BRL of one row
PisCofBase(va, ii, ipi) == RAdd(RAdd(va, ii), ipi)

\* one row of the per-item table, given the allocated cost columns
ComputeRow(item, c, alloc, i) ==
    LET fx == c.fx_rate_usd_brl
        fob_usd == RMul(item.FOB_Unit_USD, item.Quantity)
        fob_brl == RMul(fob_usd, fx)
        costs == [col \in CostColumns |-> alloc[col][i]]
        va == AddComponents(fob_brl, c.va_components, costs, TRUE)
        ii == RMul(item.II_rate, va)
        ipi_base == IpiBase(va, ii)
        ipi == RMul(item.IPI_rate, ipi_base)
        pis_cof_base == PisCofBase(va, ii, ipi)
        pis == RMul(item.PIS_rate, pis_cof_base)
        cofins == RMul(item.COFINS_rate, pis_cof_base)
        da == AddComponents(Zero, c.da_components, costs, FALSE)
        base_icms == RAdd(RAdd(RAdd(RAdd(RAdd(va, ii), ipi), pis), cofins), da)
        icms == IcmsBrl(base_icms, IcmsRateOf(item, c))
        taxes == [II_BRL |-> ii, IPI_BRL |-> ipi, PIS_BRL |-> pis, COFINS_BRL |-> cofins,
                  ICMS_BRL |-> icms]
        credit == compute_tax_credits_per_item(taxes, c)
        tax_paid == RAdd(RAdd(RAdd(RAdd(ii, ipi), pis), cofins), icms)
        net_tax == RSub(tax_paid, credit)
        direct == DirectCosts(fob_brl, costs)
        landed == LandedCost(direct, net_tax)
    IN  [Quantity |-> item.Quantity, FOB_Unit_USD |-> item.FOB_Unit_USD,
         II_rate |-> item.II_rate, IPI_rate |-> item.IPI_rate, PIS_rate |-> item.PIS_rate,
         COFINS_rate |-> item.COFINS_rate, ICMS_rate |-> item.ICMS_rate,
         FOB_Total_USD |-> fob_usd, FOB_Total_BRL |-> fob_brl,
         Freight_BRL |-> costs.Freight_BRL, Insurance_BRL |-> costs.Insurance_BRL,
         Origin_BRL |-> costs.Origin_BRL, THC_Origin_BRL |-> costs.THC_Origin_BRL,
         AFRMM_BRL |-> costs.AFRMM_BRL, Siscomex_BRL |-> costs.Siscomex_BRL,
         Local_Port_BRL |-> costs.Local_Port_BRL, Truck_BRL |-> costs.Truck_BRL,
         Other_Local_BRL |-> costs.Other_Local_BRL,
         VA_BRL |-> va, II_BRL |-> ii, IPI_Base_BRL |-> ipi_base, IPI_BRL |-> ipi,
         PIS_COF_Base_BRL |-> pis_cof_base, PIS_BRL |-> pis, COFINS_BRL |-> cofins,
         DA_for_ICMS_BRL |-> da, ICMS_BRL |-> icms, Tax_Credit_BRL |-> credit,
         Tax_paid_total_BRL |-> tax_paid, net_tax_total |-> net_tax,
         Direct_costs_BRL |-> direct, Landed_Cost_BRL |-> landed,
         Unit_Cost_BRL |-> UnitCost(landed, item.Quantity)]

\* allocation of total_value by gross weight, as an engine reading allocation_method would do
allocate_by_weight(items, total_value) ==
    LET weight == [i \in 1..Len(items) |-> items[i].Gross_Weight]
        weight_total == RSum(weight)
        n == IMax(Len(items), 1)
        share == IF RGt(weight_total, Zero)
                 THEN [i \in 1..Len(items) |-> RDiv(weight[i], weight_total)]
                 ELSE [i \in 1..Len(items) |-> R(1, n)]
    IN  [i \in 1..Len(items) |-> RMul(share[i], total_value)]

\* an engine that allocates by gross weight when cfg.allocation_method selects it
compute_landed_cost_ByMethod(items, c) ==
    LET totals == CostTotals(items, c)
        alloc == [col \in CostColumns |->
                     IF c.allocation_method = "WEIGHT"
                     THEN allocate_by_weight(items, totals[col])
                     ELSE allocate_by_fob(items, totals[col])]
    IN  [i \in 1..Len(items) |-> ComputeRow(items[i], c, alloc, i)]

\* compute_landed_cost: the per-item table
compute_landed_cost(items, c) ==
    LET totals == CostTotals(items, c)
        alloc == [col \in CostColumns |-> allocate_by_fob(items, totals[col])]
    IN  [i \in 1..Len(items) |-> ComputeRow(items[i], c, alloc, i)]

Column(df, col) == [i \in 1..Len(df) |-> df[i][col]]

\* a summary whose final cost forgets the taxes
compute_summary_NoTaxes(items, c, df) ==
    [FOB_total_USD |-> RSum(Column(df, "FOB_Total_USD")),
     FOB_total_BRL |-> RSum(Column(df, "FOB_Total_BRL")),
     Freight_total_BRL |-> RMul(c.freight_international_usd, c.fx_rate_usd_brl),
     Tax_paid_total_BRL |-> RSum(Column(df, "Tax_paid_total_BRL")),
     Tax_credit_total_BRL |-> RSum(Column(df, "Tax_Credit_BRL")),
     Final_cost_BRL |-> RSum(Column(df, "Direct_costs_BRL"))]

\* compute_landed_cost: the summary dict
compute_summary(items, c, df) ==
    [FOB_total_USD |-> RSum(Column(df, "FOB_Total_USD")),
     FOB_total_BRL |-> RSum(Column(df, "FOB_Total_BRL")),
     Freight_total_BRL |-> RMul(c.freight_international_usd, c.fx_rate_usd_brl),
     Tax_paid_total_BRL |-> RSum(Column(df, "Tax_paid_total_BRL")),
     Tax_credit_total_BRL |-> RSum(Column(df, "Tax_Credit_BRL")),
     Final_cost_BRL |-> RSum(Column(df, "Landed_Cost_BRL"))]

-----------------------------------------------------------------------------
(* Inputs of the engine.                                                   *)

MaxItems == 2

Item(q, f, rates) ==
    [Quantity |-> q, FOB_Unit_USD |-> f, II_rate |-> rates[1], IPI_rate |-> rates[2],
     PIS_rate |-> rates[3], COFINS_rate |-> rates[4], ICMS_rate |-> rates[5],
     Gross_Weight |-> rates[6]]

QuantitySet == {Zero, R(2, 1)}
FobUnitSet  == {Zero, R(3, 1)}

\* <<II, IPI, PIS, COFINS, ICMS rates, gross weight>> of an item, as the UI creates it
\* (ICMS_rate 0); the gross weight is a column of the caller's table that the engine
\* never reads
RatesA == <<R(1, 2), R(1, 4), R(1, 8), R(1, 4), Zero, One>>
\* rates of an item that carries an ICMS rate of its own
RatesB == <<R(1, 4), Zero, R(1, 8), R(1, 2), R(1, 2), R(4, 1)>>

ItemSet == {Item(q, f, RatesA) : q \in QuantitySet, f \in FobUnitSet}
           \cup {Item(q, One, RatesB) : q \in QuantitySet}

\* non-empty tables of at most MaxItems rows
ItemTables == UNION {[1..n -> ItemSet] : n \in 1..MaxItems}

\* ShipmentConfig with the dataclass defaults of the optional fields
DefaultConfig ==
    [state_destination |-> "SP", mode |-> "FCL_20", fx_rate_usd_brl |-> R(2, 1),
     freight_international_usd |-> Zero, insurance_usd |-> Zero, insurance_pct |-> Zero,
     origin_charges_usd |-> Zero, thc_origin_usd |-> Zero,
     afrmm_pct |-> Zero, siscomex_brl |-> Zero, local_port_costs_brl |-> Zero,
     trucking_brl |-> Zero, other_local_costs_brl |-> Zero,
     regime |-> "presumido", purpose |-> "resale", icms_rate |-> R(18, 100),
     da_components |-> <<"afrmm", "siscomex">>,
     va_components |-> <<"freight", "insurance", "origin_charges", "thc_origin">>,
     allocation_method |-> "FOB"]

\* a shipment with every shared cost positive (insurance as a percentage of FOB)
AllCosts ==
    [DefaultConfig EXCEPT !.freight_international_usd = R(4, 1), !.insurance_pct = R(1, 8),
                          !.origin_charges_usd = R(2, 1), !.thc_origin_usd = R(1, 1),
                          !.afrmm_pct = R(1, 4), !.siscomex_brl = R(3, 1),
                          !.local_port_costs_brl = R(5, 1), !.trucking_brl = R(6, 1),
                          !.other_local_costs_brl = R(7, 1), !.icms_rate = R(1, 5)]

\* as AllCosts, with the insurance given as an absolute amount
AbsInsurance == [AllCosts EXCEPT !.insurance_usd = R(3, 2)]

RegimeSet  == {"simples", "presumido", "real"}
PurposeSet == {"resale", "industria", "consumo"}
IcmsRateSet == {Zero, R(1, 5), One, R(3, 2)}
DaComponentsSet == {<<"afrmm", "siscomex">>, <<"siscomex">>, <<>>}
VaComponentsSet == {<<"freight", "insurance", "origin_charges", "thc_origin">>,
                    <<"freight">>, <<>>}
FxSet == {Zero, R(2, 1)}

\* va_components lists with a repeated name, an unknown name, another order
VaListSet == {<<"freight", "freight">>, <<"insurance", "demurrage">>,
              <<"thc_origin", "origin_charges", "insurance">>}

\* the equipment codes of the UI (equip_map)
ModeSet == {"FCL_20", "FCL_40", "LCL", "AIR"}

\* afrmm_pct as the UI chooses it from the equipment: 8% for the maritime ones
AfrmmPctOf(equipamento) ==
    IF equipamento \in {"FCL_20", "FCL_40", "LCL"} THEN R(8, 100) ELSE Zero

\* configs varying regime and purpose of a shipment with every cost positive
TaxConfigs ==
    {[AllCosts EXCEPT !.regime = rg, !.purpose = pu] : rg \in RegimeSet, pu \in PurposeSet}

\* configs varying the ICMS rate
IcmsConfigs ==
    {[AllCosts EXCEPT !.regime = rg, !.icms_rate = ic] :
        rg \in {"simples", "real"}, ic \in IcmsRateSet}

\* configs varying the list of customs-value components
VaConfigs ==
    {[AbsInsurance EXCEPT !.regime = "simples", !.va_components = va] : va \in VaListSet}

\* configs as the UI builds them from the equipment, and an AIR config built by another
\* caller that leaves afrmm_pct positive
ModeConfigs ==
    {[AllCosts EXCEPT !.regime = "simples", !.mode = m, !.afrmm_pct = AfrmmPctOf(m)] :
        m \in ModeSet}
    \cup {[AllCosts EXCEPT !.regime = "simples", !.mode = "AIR"]}

\* configs varying the customs expenses that enter the ICMS base
DaConfigs ==
    {[AllCosts EXCEPT !.regime = "simples", !.da_components = da] : da \in DaComponentsSet}

\* configs varying the shared costs, the exchange rate and the customs-value components
CostConfigs ==
    {[base EXCEPT !.fx_rate_usd_brl = fx, !.va_components = va, !.regime = "real"] :
        base \in {DefaultConfig, AllCosts, AbsInsurance}, fx \in FxSet, va \in VaComponentsSet}

\* configs that select another allocation method than the UI's "FOB"
AllocConfigs ==
    {[AllCosts EXCEPT !.regime = "simples", !.allocation_method = am] :
        am \in {"WEIGHT", "VA"}}

Configs == TaxConfigs \cup IcmsConfigs \cup DaConfigs \cup CostConfigs \cup VaConfigs
           \cup ModeConfigs \cup AllocConfigs

NoSummary == [FOB_total_USD |-> Zero, FOB_total_BRL |-> Zero, Freight_total_BRL |-> Zero,
              Tax_paid_total_BRL |-> Zero, Tax_credit_total_BRL |-> Zero,
              Final_cost_BRL |-> Zero]

\* no second engine run
PairIdle ==
    /\ items_df2 = <<>>
    /\ cfg2 = DefaultConfig
    /\ per_item2 = <<>>

\* the solver is not running
SolverIdle ==
    /\ item_idx = 0
    /\ target_unit_brl = Zero
    /\ max_iter = 0
    /\ tol = Zero
    /\ pc = "idle"
    /\ cost_min = Zero
    /\ low = Zero
    /\ high = Zero
    /\ cost_high = Zero
    /\ best_fob = Zero
    /\ best_cost = Zero
    /\ cost_mid = Zero
    /\ n_expand = 0
    /\ n_bisect = 0
    /\ ret = <<>>

\* no NCM search is under way
NcmIdle ==
    /\ NCM_TABLE = <<>>
    /\ ncm_input = <<>>
    /\ matches = {}

\* no reverse result is stored in the session
UiIdle ==
    /\ reverse_result = <<>>
    /\ reverse_item = <<>>
    /\ applied = {}

\* the extractor is not running
TipiIdle ==
    /\ pdf = <<>>
    /\ max_pages = 0
    /\ page_index = 0
    /\ line_index = 0
    /\ rows = <<>>
    /\ current = <<>>
    /\ tipi_df = <<>>

AuxIdle == NcmIdle /\ UiIdle /\ TipiIdle

\* the caller has built items_df and cfg and has not yet called the engine
Init ==
    /\ items_df \in ItemTables
    /\ cfg \in Configs
    /\ per_item = <<>>
    /\ summary = NoSummary
    /\ PairIdle
    /\ SolverIdle
    /\ AuxIdle

\* per_item, summary = compute_landed_cost(items_df, cfg)
ComputeLandedCost ==
    /\ per_item = <<>>
    /\ per_item' = compute_landed_cost(items_df, cfg)
    /\ summary' = compute_summary(items_df, cfg, per_item')
    /\ UNCHANGED <<items_df, cfg>>
    /\ UNCHANGED pair_vars
    /\ UNCHANGED aux_vars
    /\ UNCHANGED solver_vars

Next == ComputeLandedCost

Spec == Init /\ [][Next]_vars

-----------------------------------------------------------------------------
(* Two engine runs on tables that differ in one item's FOB_Unit_USD.       *)

PriceSet == {Zero, One, R(3, 1)}

\* configs with rates in [0, 1), fx >= 0 and shared costs >= 0
PairConfigs ==
    {[base EXCEPT !.regime = tax[1], !.icms_rate = tax[2], !.fx_rate_usd_brl = fx] :
        base \in {DefaultConfig, AllCosts},
        tax \in {<<"simples", R(3, 4)>>, <<"real", R(1, 5)>>}, fx \in FxSet}

\* the table with the unit price of row idx replaced by price
WithPrice(items, idx, price) == [items EXCEPT ![idx].FOB_Unit_USD = price]

InitPair ==
    /\ cfg \in PairConfigs
    /\ cfg2 = cfg
    /\ \E base \in ItemTables, idx \in 1..MaxItems, p1 \in PriceSet, p2 \in PriceSet :
           /\ idx <= Len(base)
           /\ RLt(p1, p2)
           /\ items_df = WithPrice(base, idx, p1)
           /\ items_df2 = WithPrice(base, idx, p2)
           /\ item_idx = idx
    /\ per_item = <<>>
    /\ per_item2 = <<>>
    /\ summary = NoSummary
    /\ target_unit_brl = Zero
    /\ max_iter = 0
    /\ tol = Zero
    /\ pc = "idle"
    /\ cost_min = Zero
    /\ low = Zero
    /\ high = Zero
    /\ cost_high = Zero
    /\ best_fob = Zero
    /\ best_cost = Zero
    /\ cost_mid = Zero
    /\ n_expand = 0
    /\ n_bisect = 0
    /\ ret = <<>>
    /\ AuxIdle

\* compute_landed_cost called on both tables
ComputePair ==
    /\ per_item = <<>>
    /\ items_df2 # <<>>
    /\ per_item' = compute_landed_cost(items_df, cfg)
    /\ summary' = compute_summary(items_df, cfg, per_item')
    /\ per_item2' = compute_landed_cost(items_df2, cfg2)
    /\ UNCHANGED <<items_df, cfg, items_df2, cfg2>>
    /\ UNCHANGED solver_vars
    /\ UNCHANGED aux_vars

NextPair == ComputePair

SpecPair == InitPair /\ [][NextPair]_vars

\* pairs of regimes, the one expected to cost more first
RegimePairs == {<<"simples", "presumido">>, <<"presumido", "real">>, <<"simples", "real">>}

\* configs with purpose resale, with and without shared costs
RegimeConfigs ==
    {[base EXCEPT !.purpose = "resale", !.icms_rate = ic] :
        base \in {DefaultConfig, AllCosts}, ic \in IcmsRateSet}

\* the same table and two configs that differ only in regime
InitRegimes ==
    /\ items_df \in ItemTables
    /\ items_df2 = items_df
    /\ \E c \in RegimeConfigs, rp \in RegimePairs :
           /\ cfg = [c EXCEPT !.regime = rp[1]]
           /\ cfg2 = [c EXCEPT !.regime = rp[2]]
    /\ per_item = <<>>
    /\ per_item2 = <<>>
    /\ summary = NoSummary
    /\ SolverIdle
    /\ AuxIdle

SpecRegimes == InitRegimes /\ [][NextPair]_vars

\* <<trucking_brl, local_port_costs_brl, other_local_costs_brl>> of the second run
LocalCostSet == {<<Zero, Zero, Zero>>, <<R(6, 1), R(5, 1), R(7, 1)>>, <<R(9, 1), R(5, 1), R(7, 1)>>,
                 <<R(6, 1), One, R(7, 1)>>, <<R(6, 1), R(5, 1), R(2, 1)>>}

\* configs with and without shared costs, with and without tax credits
LocalConfigs ==
    {[base EXCEPT !.regime = rg] : base \in {DefaultConfig, AllCosts}, rg \in {"simples", "real"}}

\* the same table and two configs that differ only in the local costs outside the tax bases
InitLocal ==
    /\ items_df \in ItemTables
    /\ items_df2 = items_df
    /\ cfg \in LocalConfigs
    /\ \E lc \in LocalCostSet :
           /\ lc # <<cfg.trucking_brl, cfg.local_port_costs_brl, cfg.other_local_costs_brl>>
           /\ cfg2 = [cfg EXCEPT !.trucking_brl = lc[1], !.local_port_costs_brl = lc[2],
                                 !.other_local_costs_brl = lc[3]]
    /\ per_item = <<>>
    /\ per_item2 = <<>>
    /\ summary = NoSummary
    /\ SolverIdle
    /\ AuxIdle

SpecLocal == InitLocal /\ [][NextPair]_vars

-----------------------------------------------------------------------------
(* app.py: solve_reverse_fob_for_item(base_df = items_df, cfg, item_idx,   *)
(* target_unit_brl, max_iter, tol), one action per engine evaluation.      *)

MaxIter == 10

ExpandCap == 25

\* Python None: a pair that is no float (floats have denominators >= 0)
NoneVal == <<0, -1>>

\* one evaluation: copy base_df, set the item's FOB_Unit_USD, run the engine, read the
\* item's Unit_Cost_BRL
UnitCostAt(items, c, idx, price) ==
    compute_landed_cost(WithPrice(items, idx, price), c)[idx].Unit_Cost_BRL

\* items the solver is run on
SolverItemSet == {Item(Zero, Zero, RatesA), Item(R(2, 1), Zero, RatesA),
                  Item(R(2, 1), One, RatesA)}

SolverTables == UNION {[1..n -> SolverItemSet] : n \in 1..MaxItems}

SolverConfigs ==
    {[DefaultConfig EXCEPT !.regime = "simples", !.icms_rate = R(1, 5)]}
    \cup {[AllCosts EXCEPT !.regime = rg] : rg \in {"simples", "real"}}
    \cup {[AllCosts EXCEPT !.regime = "simples", !.fx_rate_usd_brl = Zero]}

TargetSet == {R(4, 1), R(87, 8), R(25, 1), R(40, 1)}

TolSet == {R(1, 8)}

InitSolver ==
    /\ items_df \in SolverTables
    /\ cfg \in SolverConfigs
    /\ per_item = <<>>
    /\ summary = NoSummary
    /\ PairIdle
    /\ AuxIdle
    /\ item_idx \in 1..Len(items_df)
    /\ target_unit_brl \in TargetSet
    /\ max_iter = MaxIter
    /\ tol \in TolSet
    /\ pc = "floor"
    /\ cost_min = NoneVal
    /\ low = NoneVal
    /\ high = NoneVal
    /\ cost_high = NoneVal
    /\ best_fob = NoneVal
    /\ best_cost = NoneVal
    /\ cost_mid = NoneVal
    /\ n_expand = 0
    /\ n_bisect = 0
    /\ ret = <<>>

\* the engine run on a copy of base_df with the item's FOB_Unit_USD set to price:
\* df = base_df.copy(); df.loc[item_idx, "FOB_Unit_USD"] = price; compute_landed_cost(df, cfg)
EngineOnCopy(price) ==
    /\ per_item' = compute_landed_cost(WithPrice(items_df, item_idx, price), cfg)
    /\ UNCHANGED <<items_df, cfg, summary>>

\* step 1 with df_min = base_df instead of base_df.copy(): the caller's table is written
SolveFloor_InPlace ==
    /\ pc = "floor"
    /\ items_df' = WithPrice(items_df, item_idx, Zero)
    /\ per_item' = compute_landed_cost(items_df', cfg)
    /\ UNCHANGED <<cfg, summary>>
    /\ \E c0 \in {per_item'[item_idx].Unit_Cost_BRL},
          current_fob \in {items_df'[item_idx].FOB_Unit_USD} :
           /\ cost_min' = c0
           /\ IF RLe(target_unit_brl, RAdd(c0, tol))
              THEN /\ ret' = <<Zero, c0>>
                   /\ pc' = "done"
                   /\ high' = high
              ELSE /\ ret' = ret
                   /\ pc' = "expand"
                   /\ high' = IF RLe(current_fob, Zero) THEN One
                              ELSE RMul(current_fob, R(2, 1))
    /\ UNCHANGED <<item_idx, target_unit_brl, max_iter, tol, low, cost_high, best_fob,
                   best_cost, cost_mid, n_expand, n_bisect>>
    /\ UNCHANGED pair_vars
    /\ UNCHANGED aux_vars

\* 1) cost with FOB = 0; return (0.0, cost_min) when the target is not above it
SolveFloor ==
    /\ pc = "floor"
    /\ EngineOnCopy(Zero)
    /\ \E c0 \in {per_item'[item_idx].Unit_Cost_BRL},
          current_fob \in {items_df[item_idx].FOB_Unit_USD} :
           /\ cost_min' = c0
           /\ IF RLe(target_unit_brl, RAdd(c0, tol))
              THEN /\ ret' = <<Zero, c0>>
                   /\ pc' = "done"
                   /\ high' = high
              ELSE /\ ret' = ret
                   /\ pc' = "expand"
                   /\ high' = IF RLe(current_fob, Zero) THEN One
                              ELSE RMul(current_fob, R(2, 1))
    /\ UNCHANGED <<item_idx, target_unit_brl, max_iter, tol, low, cost_high, best_fob,
                   best_cost, cost_mid, n_expand, n_bisect>>
    /\ UNCHANGED pair_vars
    /\ UNCHANGED aux_vars

\* 2) one iteration of "for _ in range(25)": evaluate at high, break or double
SolveExpand ==
    /\ pc = "expand"
    /\ n_expand < ExpandCap
    /\ EngineOnCopy(high)
    /\ \E c \in {per_item'[item_idx].Unit_Cost_BRL} :
           /\ cost_high' = c
           /\ n_expand' = n_expand + 1
           /\ IF RGe(c, target_unit_brl)
              THEN /\ high' = high
                   /\ pc' = "expanded"
              ELSE /\ high' = RMul(high, R(2, 1))
                   /\ pc' = IF n_expand + 1 = ExpandCap THEN "expanded" ELSE "expand"
    /\ UNCHANGED <<item_idx, target_unit_brl, max_iter, tol, cost_min, low, best_fob,
                   best_cost, cost_mid, n_bisect, ret>>
    /\ UNCHANGED pair_vars
    /\ UNCHANGED aux_vars

\* after the expansion loop: return (high, cost_high) when the target was never reached,
\* otherwise set up the bisection
SolveExpanded ==
    /\ pc = "expanded"
    /\ IF cost_high # NoneVal /\ RLt(cost_high, RSub(target_unit_brl, tol))
       THEN /\ ret' = <<high, cost_high>>
            /\ pc' = "done"
            /\ UNCHANGED <<low, best_fob, best_cost>>
       ELSE /\ low' = Zero
            /\ best_fob' = high
            /\ best_cost' = cost_high
            /\ pc' = IF max_iter > 0 THEN "bisect" ELSE "return"
            /\ ret' = ret
    /\ UNCHANGED <<item_idx, target_unit_brl, max_iter, tol, cost_min, high, cost_high,
                   cost_mid, n_expand, n_bisect>>
    /\ UNCHANGED engine_vars
    /\ UNCHANGED pair_vars
    /\ UNCHANGED aux_vars

\* step 3 keeping the last midpoint instead of the best one
SolveBisect_LastSample ==
    /\ pc = "bisect"
    /\ n_bisect < max_iter
    /\ EngineOnCopy(RDiv(RAdd(low, high), R(2, 1)))
    /\ \E mid \in {RDiv(RAdd(low, high), R(2, 1))} :
       \E c \in {per_item'[item_idx].Unit_Cost_BRL} :
           /\ cost_mid' = c
           /\ best_fob' = mid
           /\ best_cost' = c
           /\ IF RGe(c, target_unit_brl)
              THEN high' = mid /\ low' = low
              ELSE low' = mid /\ high' = high
           /\ n_bisect' = n_bisect + 1
           /\ pc' = IF RLe(RAbs(RSub(c, target_unit_brl)), tol) \/ n_bisect + 1 = max_iter
                    THEN "return" ELSE "bisect"
    /\ UNCHANGED <<item_idx, target_unit_brl, max_iter, tol, cost_min, cost_high,
                   n_expand, ret>>
    /\ UNCHANGED pair_vars
    /\ UNCHANGED aux_vars

\* step 3 as "while True" that stops only within tol, ignoring max_iter
SolveBisect_UntilTol ==
    /\ pc = "bisect"
    /\ EngineOnCopy(RDiv(RAdd(low, high), R(2, 1)))
    /\ \E mid \in {RDiv(RAdd(low, high), R(2, 1))} :
       \E c \in {per_item'[item_idx].Unit_Cost_BRL} :
       \E closer \in {RLt(RAbs(RSub(c, target_unit_brl)),
                          RAbs(RSub(best_cost, target_unit_brl)))} :
           /\ cost_mid' = c
           /\ best_fob' = IF closer THEN mid ELSE best_fob
           /\ best_cost' = IF closer THEN c ELSE best_cost
           /\ IF RGe(c, target_unit_brl)
              THEN high' = mid /\ low' = low
              ELSE low' = mid /\ high' = high
           /\ n_bisect' = n_bisect + 1
           /\ pc' = IF RLe(RAbs(RSub(c, target_unit_brl)), tol) THEN "return" ELSE "bisect"
    /\ UNCHANGED <<item_idx, target_unit_brl, max_iter, tol, cost_min, cost_high,
                   n_expand, ret>>
    /\ UNCHANGED pair_vars
    /\ UNCHANGED aux_vars

\* 3) one iteration of "for _ in range(max_iter)"
SolveBisect ==
    /\ pc = "bisect"
    /\ n_bisect < max_iter
    /\ EngineOnCopy(RDiv(RAdd(low, high), R(2, 1)))
    /\ \E mid \in {RDiv(RAdd(low, high), R(2, 1))} :
       \E c \in {per_item'[item_idx].Unit_Cost_BRL} :
       \E closer \in {RLt(RAbs(RSub(c, target_unit_brl)),
                          RAbs(RSub(best_cost, target_unit_brl)))} :
           /\ cost_mid' = c
           /\ best_fob' = IF closer THEN mid ELSE best_fob
           /\ best_cost' = IF closer THEN c ELSE best_cost
           /\ IF RGe(c, target_unit_brl)
              THEN high' = mid /\ low' = low
              ELSE low' = mid /\ high' = high
           /\ n_bisect' = n_bisect + 1
           /\ pc' = IF RLe(RAbs(RSub(c, target_unit_brl)), tol) \/ n_bisect + 1 = max_iter
                    THEN "return" ELSE "bisect"
    /\ UNCHANGED <<item_idx, target_unit_brl, max_iter, tol, cost_min, cost_high,
                   n_expand, ret>>
    /\ UNCHANGED pair_vars
    /\ UNCHANGED aux_vars

\* return best_fob, best_cost
SolveReturn ==
    /\ pc = "return"
    /\ ret' = <<best_fob, best_cost>>
    /\ pc' = "done"
    /\ UNCHANGED <<item_idx, target_unit_brl, max_iter, tol, cost_min, low, high,
                   cost_high, best_fob, best_cost, cost_mid, n_expand, n_bisect>>
    /\ UNCHANGED engine_vars
    /\ UNCHANGED pair_vars
    /\ UNCHANGED aux_vars

NextSolver ==
    \/ SolveFloor
    \/ SolveExpand
    \/ SolveExpanded
    \/ SolveBisect
    \/ SolveReturn

SpecSolver == InitSolver /\ [][NextSolver]_vars

PcSet == {"floor", "expand", "expanded", "bisect", "return", "done"}

\* where the execution of solve_reverse_fob_for_item stands: the statement it is at and
\* the iterations of its two loops done so far
position == <<pc, n_expand, n_bisect>>

\* the function has not returned and execution moves on: to another statement or to the
\* next iteration of a loop
Advance ==
    /\ pc # "done"
    /\ pc' \in PcSet
    /\ n_expand' \in {n_expand, n_expand + 1}
    /\ n_bisect' \in {n_bisect, n_bisect + 1}

\* the solver is single-threaded sequential code whose only calls are to the engine, which
\* is loop-free arithmetic: until it returns, its execution keeps moving on
SpecSolverFair == SpecSolver /\ WF_position(Advance)

-----------------------------------------------------------------------------
(* app.py: the items list, the results block and the reverse FOB block of  *)
(* the page.  items_df is st.session_state["items_df"], per_item the table *)
(* of the script run that executed the results block (<<>> otherwise).     *)

\* the one element of a singleton
Only(S) == CHOOSE x \in S : TRUE

\* floor of a rational that is not negative
Floor(x) == x[1] \div x[2]

\* Python round(x): to the nearest integer, halves to the even one
RoundHalfEven(x) ==
    LET n == Floor(x)
        frac == RSub(x, R(n, 1))
    IN  IF RLt(frac, R(1, 2)) THEN n
        ELSE IF RGt(frac, R(1, 2)) THEN n + 1
        ELSE IF n % 2 = 0 THEN n ELSE n + 1

\* fob_rounded = round(fob_exact / rounding_step) * rounding_step
RoundToStep(fob_exact, rounding_step) ==
    RMul(R(RoundHalfEven(RDiv(fob_exact, rounding_step)), 1), rounding_step)

\* the reverse FOB computation as one loop over the prices it evaluates the engine at:
\* run.at says where it stands ("floor": cost_min, "expand": the range(25) loop,
\* "bisect": the range(max_iter) loop, "round": the cost at the rounded price, after
\* solve_reverse_fob_for_item has returned <<run.fob, run.cost>>)
ReverseStart(base_df, idx) ==
    [at |-> "floor", low |-> Zero,
     high |-> IF RLe(base_df[idx].FOB_Unit_USD, Zero) THEN One
              ELSE RMul(base_df[idx].FOB_Unit_USD, R(2, 1)),
     best_fob |-> Zero, best_cost |-> Zero, k |-> 0, fob |-> Zero, cost |-> Zero]

\* the price the next engine run is made at
ReversePrice(run, rounding_step) ==
    CASE run.at = "floor" -> Zero
      [] run.at = "expand" -> run.high
      [] run.at = "bisect" -> RDiv(RAdd(run.low, run.high), R(2, 1))
      [] run.at = "round" -> RoundToStep(run.fob, rounding_step)

\* solve_reverse_fob_for_item returns <<fob, cost>>
ReverseReturn(run, fob, cost) ==
    [run EXCEPT !.at = "round", !.fob = fob, !.cost = cost]

\* low = 0.0; best_fob = high; best_cost = cost_high, then the bisection loop
ReverseBisect(run, hi, cost_hi, mi) ==
    IF mi = 0 THEN ReverseReturn(run, hi, cost_hi)
    ELSE [run EXCEPT !.at = "bisect", !.low = Zero, !.high = hi, !.best_fob = hi,
                     !.best_cost = cost_hi, !.k = mi]

\* where the computation stands after the engine gave cost at price
ReverseAfter(run, price, cost, target, mi, tl) ==
    CASE run.at = "floor" ->
             IF RLe(target, RAdd(cost, tl)) THEN ReverseReturn(run, Zero, cost)
             ELSE [run EXCEPT !.at = "expand", !.k = 0]
      [] run.at = "expand" ->
             IF RGe(cost, target) THEN ReverseBisect(run, run.high, cost, mi)
             ELSE IF run.k + 1 < ExpandCap
             THEN [run EXCEPT !.high = RMul(run.high, R(2, 1)), !.k = run.k + 1]
             ELSE IF RLt(cost, RSub(target, tl))
             THEN ReverseReturn(run, RMul(run.high, R(2, 1)), cost)
             ELSE ReverseBisect(run, RMul(run.high, R(2, 1)), cost, mi)
      [] run.at = "bisect" ->
             Only({IF RLe(RAbs(RSub(cost, target)), tl) \/ run.k = 1
                   THEN ReverseReturn(run, best[1], best[2])
                   ELSE [run EXCEPT !.low = IF RGe(cost, target) THEN run.low ELSE price,
                                    !.high = IF RGe(cost, target) THEN price ELSE run.high,
                                    !.best_fob = best[1], !.best_cost = best[2],
                                    !.k = run.k - 1]
                 : best \in {IF RLt(RAbs(RSub(cost, target)),
                                    RAbs(RSub(run.best_cost, target)))
                             THEN <<price, cost>> ELSE <<run.best_fob, run.best_cost>>}})

RECURSIVE ReverseFobRun(_, _, _, _, _, _, _, _)
\* "Calcular FOB alvo": solve_reverse_fob_for_item(base_df, cfg, item_idx, target,
\* max_iter, tol), then the cost at the rounded price:
\* <<fob_exact, cost_exact, fob_rounded, cost_rounded>>
ReverseFobRun(base_df, c, idx, target, mi, tl, rounding_step, run) ==
    Only({Only({
        IF run.at = "round" THEN <<run.fob, run.cost, price, cost>>
        ELSE Only({ReverseFobRun(base_df, c, idx, target, mi, tl, rounding_step, nxt)
                 : nxt \in {ReverseAfter(run, price, cost, target, mi, tl)}})
      : cost \in {UnitCostAt(base_df, c, idx, price)}})
      : price \in {ReversePrice(run, rounding_step)}})

\* solve_reverse_fob_for_item as a function of its arguments: the pair it returns
solve_reverse_fob_for_item(base_df, c, idx, target, mi, tl) ==
    Only({<<r[1], r[2]>>
        : r \in {ReverseFobRun(base_df, c, idx, target, mi, tl, One,
                               ReverseStart(base_df, idx))}})

\* product references typed by the user
ProductSet == {"A", "B"}

\* new_item: the row appended by "Adicionar item" (rates of the selected NCM row)
NewItem(product_ref, fob_unit) ==
    [Description |-> product_ref, Quantity |-> R(2, 1), FOB_Unit_USD |-> fob_unit,
     II_rate |-> R(1, 2), IPI_rate |-> R(1, 4), PIS_rate |-> R(1, 8),
     COFINS_rate |-> R(1, 4), ICMS_rate |-> Zero]

\* the config the results block builds from the widgets
UiConfig == [AllCosts EXCEPT !.regime = "simples"]

\* clean_df: a copy of the session table with ICMS_rate set to the shipment rate
CleanDf(session_items, c) ==
    [i \in 1..Len(session_items) |-> [session_items[i] EXCEPT !.ICMS_rate = c.icms_rate]]

\* items_df.drop(idx).reset_index(drop=True): the rows after idx move up by one
DropRow(session_items, idx) ==
    [i \in 1..(Len(session_items) - 1) |->
        IF i < idx THEN session_items[i] ELSE session_items[i + 1]]

\* target and rounding step entered in the reverse FOB block
UiTargetSet == {R(30, 1)}
UiStepSet == {One}

InitUi ==
    /\ items_df = <<>>
    /\ cfg = UiConfig
    /\ per_item = <<>>
    /\ summary = NoSummary
    /\ reverse_result = <<>>
    /\ reverse_item = <<>>
    /\ applied = {}
    /\ PairIdle
    /\ SolverIdle
    /\ NcmIdle
    /\ TipiIdle

UiFrame == UNCHANGED <<cfg, pair_vars, solver_vars, ncm_vars, tipi_vars>>

\* "Adicionar item": a row is appended to the session table (the references typed are
\* kept distinct here so that a row can be told from another by its Description)
AddItem ==
    /\ Len(items_df) < MaxItems
    /\ \E product_ref \in ProductSet :
           /\ \A i \in 1..Len(items_df) : items_df[i].Description # product_ref
           /\ items_df' = Append(items_df, NewItem(product_ref, One))
    /\ per_item' = <<>>
    /\ summary' = NoSummary
    /\ UNCHANGED ui_vars
    /\ UiFrame

\* "Remover item selecionado": the chosen row is dropped and the index reset
RemoveItem ==
    /\ items_df # <<>>
    /\ \E idx_choice \in 1..Len(items_df) : items_df' = DropRow(items_df, idx_choice)
    /\ per_item' = <<>>
    /\ summary' = NoSummary
    /\ UNCHANGED ui_vars
    /\ UiFrame

\* "Limpar todos os itens"
ClearItems ==
    /\ items_df # <<>>
    /\ items_df' = <<>>
    /\ per_item' = <<>>
    /\ summary' = NoSummary
    /\ UNCHANGED ui_vars
    /\ UiFrame

\* the results block: per_item, summary = compute_landed_cost(clean_df, cfg)
ResultsBlock ==
    /\ items_df # <<>>
    /\ \E clean_df \in {CleanDf(items_df, cfg)} :
           /\ per_item' = compute_landed_cost(clean_df, cfg)
           /\ summary' = compute_summary(clean_df, cfg, per_item')

\* "Calcular custo de importacao" alone: the results are shown
ComputeCost ==
    /\ UNCHANGED items_df
    /\ UNCHANGED ui_vars

\* "Calcular FOB alvo para este item": the solver is run for the selected row of the
\* results and the outcome stored in the session under "reverse_result"
ComputeReverseFob ==
    /\ \E selected_item_idx \in 1..Len(items_df), target \in UiTargetSet,
          rounding_step \in UiStepSet, base_df \in {CleanDf(items_df, cfg)} :
       \E solved \in {ReverseFobRun(base_df, cfg, selected_item_idx, target, MaxIter,
                                    R(1, 8), rounding_step,
                                    ReverseStart(base_df, selected_item_idx))} :
           /\ reverse_result' =
                  <<[item_idx |-> selected_item_idx,
                     fob_exact |-> solved[1],
                     fob_rounded |-> solved[3],
                     target_unit_brl |-> target,
                     achieved_unit_brl |-> solved[4]]>>
           /\ reverse_item' = <<items_df[selected_item_idx].Description>>
    /\ UNCHANGED <<items_df, applied>>

\* "Aplicar FOB alvo ao item na simulacao": the stored price is written to the row at
\* the stored index of the session table, when the table has that index
ApplyReverseFob ==
    /\ reverse_result # <<>>
    /\ \E res \in {reverse_result[1]} :
           /\ res.item_idx \in 1..Len(per_item')
           /\ IF res.item_idx \in 1..Len(items_df)
              THEN /\ items_df' = [items_df EXCEPT
                                      ![res.item_idx].FOB_Unit_USD = res.fob_rounded]
                   /\ applied' =
                          IF items_df' # items_df
                          THEN applied \cup
                                   {<<items_df[res.item_idx].Description, reverse_item[1]>>}
                          ELSE applied
              ELSE UNCHANGED <<items_df, applied>>
    /\ UNCHANGED <<reverse_result, reverse_item>>

\* a script run with "Calcular custo de importacao" pressed: the results block, then
\* the handler of the button of that block that was pressed, if any
ResultsRun ==
    /\ ResultsBlock
    /\ \/ ComputeCost
       \/ ComputeReverseFob
       \/ ApplyReverseFob
    /\ UiFrame

NextUi ==
    \/ AddItem
    \/ RemoveItem
    \/ ClearItems
    \/ ResultsRun

SpecUi == InitUi /\ [][NextUi]_vars

-----------------------------------------------------------------------------
(* ncm_loader.py: load_ncm_tec_table, and app.py: the NCM field of the     *)
(* "add item" form.  Text is a sequence of one-character strings.          *)

DigitChars == {"0", "1", "2", "3", "4", "5", "6", "7", "8", "9"}

IsDigit(ch) == ch \in DigitChars

\* re.match(r"^\d{4}\.\d{2}\.\d{2}$", code)
IsDottedNcm(code) ==
    /\ Len(code) = 10
    /\ \A k \in {1, 2, 3, 4, 6, 7, 9, 10} : IsDigit(code[k])
    /\ code[5] = "." /\ code[8] = "."

\* _extract_ncm8_from_dotted: '0101.21.00' -> '01012100', None (<<>>) for any other text
extract_ncm8_from_dotted(code) ==
    IF IsDottedNcm(code) THEN SelectSeq(code, LAMBDA ch : ch # ".") ELSE <<>>

\* normalize_ncm_search: the digits of the typed text, None (<<>>) when there is none
normalize_ncm_search(value) == SelectSeq(value, IsDigit)

\* str.startswith
StartsWith(text, prefix) ==
    /\ Len(prefix) <= Len(text)
    /\ SubSeq(text, 1, Len(prefix)) = prefix

\* the columns of the table that load_ncm_tec_table returns
NcmColumns == {"NCM8", "NCM_dotted", "Descricao", "II_rate", "IPI_rate"}

\* load_ncm_tec_table: the TEC rows with a final NCM, left-merged with the TIPI rates
\* (IPI_rate 0 without a TIPI rate)
load_ncm_tec_table(tec, tipi) ==
    LET final == {t \in tec : extract_ncm8_from_dotted(t.NCM) # <<>>}
        ipi(ncm8) == {p \in tipi : p.NCM8 = ncm8}
    IN  [columns |-> NcmColumns,
         rows |-> UNION {
             LET ncm8 == extract_ncm8_from_dotted(t.NCM)
                 rates == IF ipi(ncm8) = {} THEN {Zero} ELSE {p.IPI_rate : p \in ipi(ncm8)}
             IN  {[NCM8 |-> ncm8, NCM_dotted |-> t.NCM, Descricao |-> t.DESCRICAO,
                   II_rate |-> t.II_rate, IPI_rate |-> r] : r \in rates}
             : t \in final}]

\* rows of the TEC sheet: three final codes and one heading
TecRowSet ==
    {[NCM |-> <<"0", "1", "0", "1", ".", "2", "1", ".", "0", "0">>, DESCRICAO |-> "Cavalos",
      II_rate |-> Zero],
     [NCM |-> <<"0", "1", "0", "1", ".", "2", "9", ".", "0", "0">>, DESCRICAO |-> "Outros",
      II_rate |-> R(1, 10)],
     [NCM |-> <<"0", "2", "0", "1", ".", "1", "0", ".", "0", "0">>, DESCRICAO |-> "Carcacas",
      II_rate |-> R(1, 10)],
     [NCM |-> <<"0", "1", "0", "1", ".", "2">>, DESCRICAO |-> "Cavalos vivos",
      II_rate |-> Zero]}

\* rows of the TIPI CSV, or none when the file is missing
TipiRowSet ==
    {[NCM8 |-> <<"0", "1", "0", "1", "2", "9", "0", "0">>, IPI_rate |-> R(1, 20)]}

\* texts typed in the NCM field
NcmInputSet ==
    {<<"0">>, <<"0", "1">>, <<"0", "1", "0", "1">>, <<"0", "1", "0", "1", ".", "2">>,
     <<"0", "1", "0", "1", ".", "2", "1", ".", "0", "0">>,
     <<"0", "1", "0", "1", "2", "9", "0", "0">>, <<"0", "1", "0", "1", ".", "2", "9">>,
     <<"0", "2">>, <<"9">>, <<".">>, <<>>}

\* the suggestion filter of the form: matches stays an empty table unless the typed text
\* has digits and the table has a column "digits"
NcmSuggestions(table, text) ==
    LET digits == normalize_ncm_search(text)
    IN  IF text # <<>> /\ digits # <<>> /\ "digits" \in table.columns
        THEN {r \in table.rows : StartsWith(r["digits"], digits)}
        ELSE {}

InitNcm ==
    /\ \E tec \in SUBSET TecRowSet, tipi \in SUBSET TipiRowSet :
           NCM_TABLE = load_ncm_tec_table(tec, tipi)
    /\ ncm_input = <<>>
    /\ matches = {}
    /\ items_df = <<>>
    /\ cfg = DefaultConfig
    /\ per_item = <<>>
    /\ summary = NoSummary
    /\ PairIdle
    /\ SolverIdle
    /\ UiIdle
    /\ TipiIdle

\* the user types in the NCM field and the script runs again
TypeNcm ==
    /\ \E text \in NcmInputSet :
           /\ ncm_input' = text
           /\ matches' = NcmSuggestions(NCM_TABLE, text)
    /\ UNCHANGED NCM_TABLE
    /\ UNCHANGED <<engine_vars, pair_vars, solver_vars, ui_vars, tipi_vars>>

NextNcm == TypeNcm

SpecNcm == InitNcm /\ [][NextNcm]_vars

-----------------------------------------------------------------------------
(* tipi-ext/extractor.py: extract_tipi_from_pdf(pdf_bytes, max_pages).  A  *)
(* line is the sequence of its whitespace-separated tokens (stripped       *)
(* .split()), a description the sequence of its words.                     *)

\* tokens of the form dddd.dd.dd, in sort order
NcmTokenSeq == <<"0101.21.00", "0101.29.00">>

NcmTokens == {NcmTokenSeq[k] : k \in 1..Len(NcmTokenSeq)}

\* tokens matching (NT|\d+)
RateTokens == {"NT", "0", "10"}

\* ncm_full: NCM, description and rate on one line
MatchesNcmFull(line) ==
    /\ Len(line) >= 3
    /\ line[1] \in NcmTokens
    /\ line[Len(line)] \in RateTokens

\* ncm_only: NCM at the start of the line
MatchesNcmOnly(line) == Len(line) >= 1 /\ line[1] \in NcmTokens

RECURSIVE JoinParts(_)
\* " ".join(parts), as a sequence of words
JoinParts(parts) ==
    IF parts = <<>> THEN <<>> ELSE Head(parts) \o JoinParts(Tail(parts))

RECURSIVE StripDashes(_)
\* str.strip(" -"): hyphens (and blanks) at both ends are dropped
StripDashes(words) ==
    IF words = <<>> THEN <<>>
    ELSE IF Head(words) = "-" THEN StripDashes(Tail(words))
    ELSE IF words[Len(words)] = "-" THEN StripDashes(SubSeq(words, 1, Len(words) - 1))
    ELSE words

\* normalize_description
normalize_description(parts) == StripDashes(JoinParts(parts))

\* finalize_current
finalize_current(cur) ==
    [NCM |-> cur.ncm, Descricao |-> normalize_description(cur.desc_parts),
     Aliquota |-> cur.aliquota]

\* "current and current.get('aliquota')"
HasAliquota(cur) == cur # <<>> /\ cur[1].aliquota # "None"

\* a loop body that emits the pending block at the next NCM line even without a rate
ProcessLine_FlushPending(line, rws, cur) ==
    IF line = <<>> THEN [rows |-> rws, current |-> cur]
    ELSE IF MatchesNcmFull(line)
    THEN [rows |-> (IF cur # <<>> THEN Append(rws, finalize_current(cur[1])) ELSE rws)
                   \o <<[NCM |-> line[1],
                         Descricao |-> normalize_description(
                                           <<SubSeq(line, 2, Len(line) - 1)>>),
                         Aliquota |-> line[Len(line)]]>>,
          current |-> <<>>]
    ELSE IF MatchesNcmOnly(line)
    THEN [rows |-> IF cur # <<>> THEN Append(rws, finalize_current(cur[1])) ELSE rws,
          current |-> <<[ncm |-> line[1],
                         desc_parts |-> IF Len(line) > 1 THEN <<Tail(line)>> ELSE <<>>,
                         aliquota |-> "None"]>>]
    ELSE IF cur # <<>>
    THEN IF line[Len(line)] \in RateTokens
         THEN LET desc_extra == SubSeq(line, 1, Len(line) - 1)
                  closed == [cur[1] EXCEPT
                                !.desc_parts = IF desc_extra # <<>> THEN Append(@, desc_extra)
                                               ELSE @,
                                !.aliquota = line[Len(line)]]
              IN  [rows |-> Append(rws, finalize_current(closed)), current |-> <<>>]
         ELSE [rows |-> rws,
               current |-> <<[cur[1] EXCEPT !.desc_parts = Append(@, line)]>>]
    ELSE [rows |-> rws, current |-> cur]

\* the body of "for raw_line in text.splitlines()": the rows and the pending block after
\* one line
ProcessLine(line, rws, cur) ==
    IF line = <<>> THEN [rows |-> rws, current |-> cur]
    ELSE IF MatchesNcmFull(line)
    THEN [rows |-> (IF HasAliquota(cur) THEN Append(rws, finalize_current(cur[1])) ELSE rws)
                   \o <<[NCM |-> line[1],
                         Descricao |-> normalize_description(
                                           <<SubSeq(line, 2, Len(line) - 1)>>),
                         Aliquota |-> line[Len(line)]]>>,
          current |-> <<>>]
    ELSE IF MatchesNcmOnly(line)
    THEN [rows |-> IF HasAliquota(cur) THEN Append(rws, finalize_current(cur[1])) ELSE rws,
          current |-> <<[ncm |-> line[1],
                         desc_parts |-> IF Len(line) > 1 THEN <<Tail(line)>> ELSE <<>>,
                         aliquota |-> "None"]>>]
    ELSE IF cur # <<>>
    THEN IF line[Len(line)] \in RateTokens
         THEN LET desc_extra == SubSeq(line, 1, Len(line) - 1)
                  closed == [cur[1] EXCEPT
                                !.desc_parts = IF desc_extra # <<>> THEN Append(@, desc_extra)
                                               ELSE @,
                                !.aliquota = line[Len(line)]]
              IN  [rows |-> Append(rws, finalize_current(closed)), current |-> <<>>]
         ELSE [rows |-> rws,
               current |-> <<[cur[1] EXCEPT !.desc_parts = Append(@, line)]>>]
    ELSE [rows |-> rws, current |-> cur]

RECURSIVE Unique(_)
\* the dict keyed by (NCM, Descricao, Aliquota): every row once, in order of first occurrence
Unique(rws) ==
    IF rws = <<>> THEN <<>>
    ELSE LET init == Unique(SubSeq(rws, 1, Len(rws) - 1))
             last == rws[Len(rws)]
         IN  IF \E k \in 1..Len(init) : init[k] = last THEN init ELSE Append(init, last)

RECURSIVE SortByNcm(_, _)
\* rows.sort(key = NCM): stable, codes taken in ascending order from position k on
SortByNcm(rws, k) ==
    IF k > Len(NcmTokenSeq) THEN <<>>
    ELSE SelectSeq(rws, LAMBDA r : r.NCM = NcmTokenSeq[k]) \o SortByNcm(rws, k + 1)

MaxLines == 3

\* lines of the PDF text: an NCM line with and without description and no rate,
\* continuation lines without and with a rate, a rate alone, a full line, a blank line
LineSet ==
    {<<"0101.21.00", "Cavalos">>, <<"0101.29.00">>, <<"-", "vivos">>,
     <<"reprodutores", "10">>, <<"NT">>, <<"0101.29.00", "-", "Outros", "0">>, <<>>}

\* the lines of a PDF
TextSet == UNION {[1..n -> LineSet] : n \in 0..MaxLines}

\* a PDF of two pages (either may have no text) and a page limit
InitTipi ==
    /\ \E text \in TextSet, cut \in 0..MaxLines :
           /\ cut <= Len(text)
           /\ pdf = <<SubSeq(text, 1, cut), SubSeq(text, cut + 1, Len(text))>>
    /\ max_pages \in {1, 2, 3}
    /\ page_index = 0
    /\ line_index = 0
    /\ rows = <<>>
    /\ current = <<>>
    /\ tipi_df = <<>>
    /\ items_df = <<>>
    /\ cfg = DefaultConfig
    /\ per_item = <<>>
    /\ summary = NoSummary
    /\ PairIdle
    /\ SolverIdle
    /\ NcmIdle
    /\ UiIdle

\* last_page_index = min(max_pages, total_pages)
last_page_index == IF max_pages < Len(pdf) THEN max_pages ELSE Len(pdf)

TipiFrame == UNCHANGED <<engine_vars, pair_vars, solver_vars, ncm_vars, ui_vars>>

\* one iteration of the loop over the lines of the page
ReadLine ==
    /\ tipi_df = <<>>
    /\ page_index < last_page_index
    /\ line_index < Len(pdf[page_index + 1])
    /\ \E after \in {ProcessLine(pdf[page_index + 1][line_index + 1], rows, current)} :
           /\ rows' = after.rows
           /\ current' = after.current
    /\ line_index' = line_index + 1
    /\ UNCHANGED <<pdf, max_pages, page_index, tipi_df>>
    /\ TipiFrame

\* the lines of the page are consumed (or it has no text): on to the next page
NextPage ==
    /\ tipi_df = <<>>
    /\ page_index < last_page_index
    /\ line_index = Len(pdf[page_index + 1])
    /\ page_index' = page_index + 1
    /\ line_index' = 0
    /\ UNCHANGED <<pdf, max_pages, rows, current, tipi_df>>
    /\ TipiFrame

\* end of the PDF or page limit: emit a pending block that has a rate, remove duplicates,
\* sort by NCM and return the table
ReturnTable ==
    /\ tipi_df = <<>>
    /\ page_index = last_page_index
    /\ rows' = IF HasAliquota(current) THEN Append(rows, finalize_current(current[1]))
               ELSE rows
    /\ tipi_df' = <<SortByNcm(Unique(rows'), 1)>>
    /\ UNCHANGED <<pdf, max_pages, page_index, line_index, current>>
    /\ TipiFrame

NextTipi ==
    \/ ReadLine
    \/ NextPage
    \/ ReturnTable

SpecTipi == InitTipi /\ [][NextTipi]_vars

-----------------------------------------------------------------------------
(* Properties of compute_landed_cost (specification Spec).                 *)

Computed == per_item # <<>>

Rows == 1..Len(per_item)

Named(name, comps) == \E k \in 1..Len(comps) : comps[k] = name

InUnitInterval(r) == RGt(r, Zero) /\ RLt(r, One)

\* N of a row: VA + II + IPI + PIS + COFINS + the customs expenses named in da_components
NominalBase(row, c) ==
    LET taxed == RAdd(RAdd(RAdd(RAdd(row.VA_BRL, row.II_BRL), row.IPI_BRL), row.PIS_BRL),
                      row.COFINS_BRL)
        afrmm == IF Named("afrmm", c.da_components) THEN row.AFRMM_BRL ELSE Zero
        sisc  == IF Named("siscomex", c.da_components) THEN row.Siscomex_BRL ELSE Zero
    IN  RAdd(RAdd(taxed, afrmm), sisc)

\* N / (1 - r) - N
GrossUp(N, r) == RSub(RDiv(N, RSub(One, r)), N)

\* C1: for a shipment ICMS rate r with 0 < r < 1 every row has
\* ICMS_BRL = N/(1-r) - N, N being VA + II + IPI + PIS + COFINS + the row's AFRMM and
\* Siscomex when named in cfg.da_components; for r = 0 ICMS_BRL is 0.
C1_IcmsGrossUp ==
    Computed =>
        \A i \in Rows :
            /\ InUnitInterval(cfg.icms_rate) =>
                   per_item[i].ICMS_BRL = GrossUp(NominalBase(per_item[i], cfg), cfg.icms_rate)
            /\ cfg.icms_rate = Zero => per_item[i].ICMS_BRL = Zero

C1_Witness ==
    /\ Computed
    /\ InUnitInterval(cfg.icms_rate)
    /\ Named("afrmm", cfg.da_components)
    /\ \E i \in Rows : /\ RGt(per_item[i].AFRMM_BRL, Zero)
                       /\ RGt(per_item[i].IPI_BRL, Zero)
                       /\ RGt(per_item[i].ICMS_BRL, Zero)

TaxesPaid(row) ==
    RAdd(RAdd(RAdd(RAdd(row.II_BRL, row.IPI_BRL), row.PIS_BRL), row.COFINS_BRL), row.ICMS_BRL)

ExpectedCredit(row, c) ==
    CASE c.regime = "simples" -> Zero
      [] c.regime # "simples" /\ c.purpose # "resale" -> Zero
      [] c.regime = "presumido" /\ c.purpose = "resale" -> RAdd(row.IPI_BRL, row.ICMS_BRL)
      [] c.regime = "real" /\ c.purpose = "resale" ->
             RAdd(RAdd(RAdd(row.IPI_BRL, row.PIS_BRL), row.COFINS_BRL), row.ICMS_BRL)

ShipmentTotal(col, items, c) ==
    LET fx == c.fx_rate_usd_brl
        fob == RSum(FobSeries(items))
    IN  CASE col = "Freight_BRL" -> RMul(c.freight_international_usd, fx)
          [] col = "Insurance_BRL" ->
                 RMul(IF RGt(c.insurance_usd, Zero) THEN c.insurance_usd
                      ELSE RMul(fob, c.insurance_pct), fx)
          [] col = "Origin_BRL" -> RMul(c.origin_charges_usd, fx)
          [] col = "THC_Origin_BRL" -> RMul(c.thc_origin_usd, fx)
          [] col = "AFRMM_BRL" -> RMul(RMul(c.afrmm_pct, c.freight_international_usd), fx)
          [] col = "Siscomex_BRL" -> c.siscomex_brl
          [] col = "Local_Port_BRL" -> c.local_port_costs_brl
          [] col = "Truck_BRL" -> c.trucking_brl
          [] col = "Other_Local_BRL" -> c.other_local_costs_brl

TotalFob(items) == RSum(FobSeries(items))

\* C3: every allocated shared-cost column sums across the rows to the shipment total of
\* that cost, and when total FOB > 0 a row's amount is total x (Quantity x FOB_Unit_USD)
\* / total FOB.
C3_AllocationConservation ==
    Computed =>
        \A col \in CostColumns :
            LET total == ShipmentTotal(col, items_df, cfg)
            IN  /\ RSum(Column(per_item, col)) = total
                /\ RGt(TotalFob(items_df), Zero) =>
                       \A i \in Rows :
                           per_item[i][col] =
                               RDiv(RMul(total, RMul(items_df[i].Quantity,
                                                     items_df[i].FOB_Unit_USD)),
                                    TotalFob(items_df))

C3_Witness ==
    /\ Computed
    /\ Len(per_item) >= 2
    /\ RGt(TotalFob(items_df), Zero)
    /\ RGt(per_item[1].Insurance_BRL, Zero)
    /\ RGt(per_item[2].Insurance_BRL, per_item[1].Insurance_BRL)
    /\ RGt(per_item[2].Truck_BRL, per_item[1].Truck_BRL)

LocalAndTrucking(row) ==
    RAdd(RAdd(row.Local_Port_BRL, row.Other_Local_BRL), row.Truck_BRL)

\* C6 as stated: Landed_Cost_BRL = VA_BRL + net_tax_total + Local_Port_BRL +
\* Other_Local_BRL + Truck_BRL and nothing else, for every va_components, afrmm_pct and
\* siscomex_brl.
C6_LandedFromCustomsValue ==
    (Computed /\ RLt(cfg.icms_rate, One)) =>
        \A i \in Rows :
            per_item[i].Landed_Cost_BRL =
                RAdd(RAdd(per_item[i].VA_BRL, per_item[i].net_tax_total),
                     LocalAndTrucking(per_item[i]))

AllocatedCosts(row) ==
    RAdd(RAdd(RAdd(RAdd(RAdd(RAdd(RAdd(RAdd(row.Freight_BRL, row.Insurance_BRL),
        row.Origin_BRL), row.THC_Origin_BRL), row.AFRMM_BRL), row.Siscomex_BRL),
        row.Local_Port_BRL), row.Truck_BRL), row.Other_Local_BRL)

\* C6 amended: Landed_Cost_BRL = FOB_Total_BRL + the nine allocated shared costs
\* (Freight, Insurance, Origin, THC_Origin, AFRMM, Siscomex, Local_Port, Truck,
\* Other_Local) + net_tax_total, whatever va_components names.
C6_LandedFromDirectCosts ==
    Computed =>
        \A i \in Rows :
            per_item[i].Landed_Cost_BRL =
                RAdd(RAdd(per_item[i].FOB_Total_BRL, AllocatedCosts(per_item[i])),
                     per_item[i].net_tax_total)

C6_Witness ==
    /\ Computed
    /\ cfg.va_components = <<"freight">>
    /\ \E i \in Rows : /\ RGt(per_item[i].Siscomex_BRL, Zero)
                       /\ RGt(per_item[i].AFRMM_BRL, Zero)
                       /\ RGt(per_item[i].Insurance_BRL, Zero)
                       /\ RGt(per_item[i].net_tax_total, Zero)
                       /\ RGt(per_item[i].Landed_Cost_BRL,
                              RAdd(RAdd(per_item[i].VA_BRL, per_item[i].net_tax_total),
                                   LocalAndTrucking(per_item[i])))

\* C8 as stated: a row with Quantity = 0 has Unit_Cost_BRL = 0, also when the total FOB
\* is 0 and shared costs are positive.
C8_ZeroQuantityUnitCost ==
    (Computed /\ RLt(cfg.icms_rate, One)) =>
        \A i \in Rows : per_item[i].Quantity = Zero => per_item[i].Unit_Cost_BRL = Zero

\* C9 as stated: for an ICMS rate >= 1 every row has ICMS_BRL = 0.
C9_IcmsRateAtLeastOne ==
    (Computed /\ RGe(cfg.icms_rate, One)) =>
        \A i \in Rows : per_item[i].ICMS_BRL = Zero

\* C10 as stated: a row whose ICMS_rate is non-zero has its ICMS_BRL computed with that
\* rate, a row whose ICMS_rate is 0 with cfg.icms_rate.
C10_ItemIcmsOverride ==
    (Computed /\ InUnitInterval(cfg.icms_rate)) =>
        \A i \in Rows :
            LET r == IF per_item[i].ICMS_rate # Zero THEN per_item[i].ICMS_rate
                     ELSE cfg.icms_rate
            IN  per_item[i].ICMS_BRL = GrossUp(NominalBase(per_item[i], cfg), r)

\* C10 amended: for a shipment rate in [0, 1) every row's ICMS_BRL is computed with the
\* shipment rate cfg.icms_rate, also when the row's own ICMS_rate is non-zero and
\* different from it.
C10_ShipmentRateForEveryItem ==
    (Computed /\ RGe(cfg.icms_rate, Zero) /\ RLt(cfg.icms_rate, One)) =>
        \A i \in Rows :
            per_item[i].ICMS_rate # Zero =>
                per_item[i].ICMS_BRL =
                    IF cfg.icms_rate = Zero THEN Zero
                    ELSE RDiv(RMul(NominalBase(per_item[i], cfg), cfg.icms_rate),
                              RSub(One, cfg.icms_rate))

C10_Witness ==
    /\ Computed
    /\ InUnitInterval(cfg.icms_rate)
    /\ \E i \in Rows : /\ per_item[i].ICMS_rate # Zero
                       /\ per_item[i].ICMS_rate # cfg.icms_rate
                       /\ RGt(per_item[i].ICMS_BRL, Zero)

\* C11: when the shipment's total FOB is 0 every one of the n rows receives total/n of
\* every shared cost, and when the total FOB is positive a row whose own FOB is 0
\* receives 0 of every shared cost.
C11_EqualSplitFallback ==
    Computed =>
        \A col \in CostColumns : \A i \in Rows :
            /\ TotalFob(items_df) = Zero =>
                   per_item[i][col] =
                       RDiv(ShipmentTotal(col, items_df, cfg), R(Len(items_df), 1))
            /\ (RGt(TotalFob(items_df), Zero) /\ per_item[i].FOB_Total_USD = Zero) =>
                   per_item[i][col] = Zero

C11_Witness ==
    /\ Computed
    /\ Len(per_item) >= 2
    /\ TotalFob(items_df) = Zero
    /\ RGt(per_item[2].Freight_BRL, Zero)
    /\ RGt(per_item[2].Truck_BRL, Zero)
    /\ per_item[1].Truck_BRL = per_item[2].Truck_BRL

\* C14: every row has II_BRL = II_rate x VA_BRL and IPI_BRL = IPI_rate x (VA_BRL +
\* II_BRL): the excise base is the customs value plus the duty, above the flat customs
\* value whenever the duty is positive (II_rate > 0 on a positive customs value).
C14_TaxOnTaxExcise ==
    Computed =>
        \A i \in Rows :
            LET row == per_item[i]
            IN  /\ row.II_BRL = RMul(row.II_rate, row.VA_BRL)
                /\ row.IPI_Base_BRL = RAdd(row.VA_BRL, row.II_BRL)
                /\ row.IPI_BRL = RMul(row.IPI_rate, RAdd(row.VA_BRL, row.II_BRL))
                /\ (RGt(row.II_rate, Zero) /\ RGt(row.VA_BRL, Zero)) =>
                       /\ RGt(row.IPI_Base_BRL, row.VA_BRL)
                       /\ RGt(row.IPI_rate, Zero) =>
                              RGt(row.IPI_BRL, RMul(row.IPI_rate, row.VA_BRL))

C14_Witness ==
    /\ Computed
    /\ \E i \in Rows : /\ RGt(per_item[i].II_BRL, Zero)
                       /\ RGt(per_item[i].IPI_rate, Zero)
                       /\ RGt(per_item[i].IPI_BRL,
                              RMul(per_item[i].IPI_rate, per_item[i].VA_BRL))

\* C15 as stated: every row has PIS_BRL = PIS_rate x VA_BRL and COFINS_BRL = COFINS_rate
\* x VA_BRL, whatever the duty and the excise are.
C15_ContributionsOnCustomsValue ==
    Computed =>
        \A i \in Rows :
            /\ per_item[i].PIS_BRL = RMul(per_item[i].PIS_rate, per_item[i].VA_BRL)
            /\ per_item[i].COFINS_BRL = RMul(per_item[i].COFINS_rate, per_item[i].VA_BRL)

\* VA_BRL + II_BRL + IPI_BRL of a row
ValueWithDutyAndExcise(row) == RAdd(RAdd(row.VA_BRL, row.II_BRL), row.IPI_BRL)

\* C15 amended: every row has PIS_BRL = PIS_rate x (VA_BRL + II_BRL + IPI_BRL) and
\* COFINS_BRL = COFINS_rate x (VA_BRL + II_BRL + IPI_BRL): both are charged on the same
\* base, which holds the duty and the excise but neither contribution.
C15_ContributionsOnValueDutyExcise ==
    Computed =>
        \A i \in Rows :
            /\ per_item[i].PIS_COF_Base_BRL = ValueWithDutyAndExcise(per_item[i])
            /\ per_item[i].PIS_BRL =
                   RMul(per_item[i].PIS_rate, ValueWithDutyAndExcise(per_item[i]))
            /\ per_item[i].COFINS_BRL =
                   RMul(per_item[i].COFINS_rate, ValueWithDutyAndExcise(per_item[i]))

C15_Witness ==
    /\ Computed
    /\ \E i \in Rows : /\ RGt(per_item[i].II_BRL, Zero)
                       /\ RGt(per_item[i].IPI_BRL, Zero)
                       /\ RGt(per_item[i].PIS_BRL,
                              RMul(per_item[i].PIS_rate, per_item[i].VA_BRL))
                       /\ RGt(per_item[i].COFINS_BRL,
                              RMul(per_item[i].COFINS_rate, per_item[i].VA_BRL))

\* the row's share of a shared cost if its name is designated in comps, else 0
IfDesignated(name, comps, amount) == IF Named(name, comps) THEN amount ELSE Zero

\* FOB_Total_BRL plus, once each, the shares whose names va_components designates
CustomsValueOnce(row, c) ==
    RAdd(RAdd(RAdd(RAdd(row.FOB_Total_BRL,
        IfDesignated("freight", c.va_components, row.Freight_BRL)),
        IfDesignated("insurance", c.va_components, row.Insurance_BRL)),
        IfDesignated("origin_charges", c.va_components, row.Origin_BRL)),
        IfDesignated("thc_origin", c.va_components, row.THC_Origin_BRL))

\* no name occurs twice in the list
NoRepeats(comps) ==
    \A j \in 1..Len(comps) : \A k \in 1..Len(comps) : comps[j] = comps[k] => j = k

\* C16 as stated: for every list cfg.va_components every row has VA_BRL = FOB_Total_BRL +
\* the row's share of exactly the designated costs, each counted once; names that are not
\* designated and unknown names add nothing.
C16_CustomsValue ==
    Computed => \A i \in Rows : per_item[i].VA_BRL = CustomsValueOnce(per_item[i], cfg)

\* the customs value is as stated whenever the list names no component twice
C16_CustomsValueNoRepeats ==
    (Computed /\ NoRepeats(cfg.va_components)) =>
        \A i \in Rows : per_item[i].VA_BRL = CustomsValueOnce(per_item[i], cfg)

\* a list with an unknown name and without repeats is among the inputs
C16_UnknownNameReached ==
    ~(/\ Computed
      /\ Named("demurrage", cfg.va_components)
      /\ \E i \in Rows : RGt(per_item[i].Insurance_BRL, Zero))

\* C17: the shipment insurance in BRL, the sum of the rows' Insurance_BRL, is
\* cfg.insurance_usd x fx when cfg.insurance_usd > 0, whatever insurance_pct is, and
\* total FOB USD x cfg.insurance_pct x fx otherwise.
C17_InsuranceTotal ==
    Computed =>
        LET usd == IF RGt(cfg.insurance_usd, Zero) THEN cfg.insurance_usd
                   ELSE RMul(TotalFob(items_df), cfg.insurance_pct)
        IN  RSum(Column(per_item, "Insurance_BRL")) = RMul(usd, cfg.fx_rate_usd_brl)

\* an absolute amount given together with a percentage that would give another total
C17_Witness ==
    /\ Computed
    /\ RGt(cfg.insurance_usd, Zero)
    /\ RGt(cfg.insurance_pct, Zero)
    /\ RGt(cfg.fx_rate_usd_brl, Zero)
    /\ RGt(TotalFob(items_df), Zero)
    /\ RMul(TotalFob(items_df), cfg.insurance_pct) # cfg.insurance_usd
    /\ RSum(Column(per_item, "Insurance_BRL")) = RMul(cfg.insurance_usd, cfg.fx_rate_usd_brl)

\* afrmm_pct x international freight x fx
AfrmmTotal(c) == RMul(RMul(c.afrmm_pct, c.freight_international_usd), c.fx_rate_usd_brl)

\* C18 as stated: when cfg.mode is AIR every row has AFRMM_BRL = 0, for any afrmm_pct
\* and freight; for the maritime modes the rows' AFRMM_BRL sum to afrmm_pct x freight x fx.
C18_AfrmmWaivedForAir ==
    Computed =>
        IF cfg.mode = "AIR"
        THEN \A i \in Rows : per_item[i].AFRMM_BRL = Zero
        ELSE RSum(Column(per_item, "AFRMM_BRL")) = AfrmmTotal(cfg)

\* C18 amended: for every mode, AIR included, the rows' AFRMM_BRL sum to afrmm_pct x
\* freight x fx; every row of an AIR shipment has AFRMM_BRL = 0 when afrmm_pct is the 0
\* that the UI passes for AIR.
C18_AfrmmFromPctAlone ==
    Computed =>
        /\ RSum(Column(per_item, "AFRMM_BRL")) = AfrmmTotal(cfg)
        /\ (cfg.mode = "AIR" /\ cfg.afrmm_pct = AfrmmPctOf("AIR")) =>
               \A i \in Rows : per_item[i].AFRMM_BRL = Zero

\* an AIR shipment whose config carries a positive afrmm_pct is charged AFRMM
C18_Witness ==
    /\ Computed
    /\ cfg.mode = "AIR"
    /\ RGt(cfg.afrmm_pct, Zero)
    /\ RGt(AfrmmTotal(cfg), Zero)
    /\ \E i \in Rows : RGt(per_item[i].AFRMM_BRL, Zero)

\* C19 as stated: with purpose "industria" every row has the Tax_Credit_BRL that purpose
\* "resale" gives in the same regime.
C19_IndustriaAsResale ==
    (Computed /\ cfg.purpose = "industria") =>
        \A i \in Rows :
            per_item[i].Tax_Credit_BRL =
                ExpectedCredit(per_item[i], [cfg EXCEPT !.purpose = "resale"])

\* what the engine does with purpose "industria": no credit in any regime
C19_IndustriaNoCredit ==
    (Computed /\ cfg.purpose = "industria") =>
        \A i \in Rows : per_item[i].Tax_Credit_BRL = Zero

\* the nine allocated cost columns, in the order of Direct_costs_BRL
CostColumnSeq == <<"Freight_BRL", "Insurance_BRL", "Origin_BRL", "THC_Origin_BRL", "AFRMM_BRL",
                   "Siscomex_BRL", "Local_Port_BRL", "Truck_BRL", "Other_Local_BRL">>

BrlRowColumns == CostColumns \cup {"FOB_Total_BRL", "VA_BRL", "II_BRL", "IPI_BRL", "PIS_BRL",
                                   "COFINS_BRL", "ICMS_BRL", "Landed_Cost_BRL",
                                   "Unit_Cost_BRL"}

\* C21 as stated: with fx_rate_usd_brl = 0 every BRL output is 0: the allocated cost
\* columns, VA_BRL, the five taxes, Landed_Cost_BRL and Unit_Cost_BRL of every row and the
\* BRL totals of the summary, whatever siscomex_brl, trucking_brl, local_port_costs_brl
\* and other_local_costs_brl are.
C21_ZeroFxZeroesEverything ==
    (Computed /\ cfg.fx_rate_usd_brl = Zero) =>
        /\ \A i \in Rows : \A col \in BrlRowColumns : per_item[i][col] = Zero
        /\ summary.FOB_total_BRL = Zero
        /\ summary.Freight_total_BRL = Zero
        /\ summary.Tax_paid_total_BRL = Zero
        /\ summary.Tax_credit_total_BRL = Zero
        /\ summary.Final_cost_BRL = Zero

UsdDerivedColumns == {"FOB_Total_BRL", "Freight_BRL", "Insurance_BRL", "Origin_BRL",
                      "THC_Origin_BRL", "AFRMM_BRL", "VA_BRL", "II_BRL", "IPI_BRL", "PIS_BRL",
                      "COFINS_BRL"}

BrlCostColumns == {"Siscomex_BRL", "Local_Port_BRL", "Truck_BRL", "Other_Local_BRL"}

\* C21 amended: with fx_rate_usd_brl = 0 and an ICMS rate below 1 every output is a finite
\* number; the outputs converted from USD (FOB, freight, insurance, origin, THC, AFRMM),
\* VA_BRL, II, IPI, PIS and COFINS are 0; siscomex_brl, local_port_costs_brl, trucking_brl
\* and other_local_costs_brl are allocated in full; ICMS_BRL is the gross-up of the
\* customs expenses in its base; and Landed_Cost_BRL is the four BRL shares plus
\* net_tax_total.
C21_ZeroFxKeepsBrlCosts ==
    (Computed /\ cfg.fx_rate_usd_brl = Zero /\ RLt(cfg.icms_rate, One)) =>
        /\ \A i \in Rows :
               /\ \A col \in UsdDerivedColumns : per_item[i][col] = Zero
               /\ IsFinite(per_item[i].Landed_Cost_BRL) /\ IsFinite(per_item[i].Unit_Cost_BRL)
               /\ per_item[i].ICMS_BRL =
                      IF cfg.icms_rate = Zero THEN Zero
                      ELSE GrossUp(NominalBase(per_item[i], cfg), cfg.icms_rate)
               /\ per_item[i].Landed_Cost_BRL =
                      RAdd(RAdd(RAdd(RAdd(per_item[i].Siscomex_BRL, per_item[i].Local_Port_BRL),
                                     per_item[i].Truck_BRL), per_item[i].Other_Local_BRL),
                           per_item[i].net_tax_total)
        /\ \A col \in BrlCostColumns :
               RSum(Column(per_item, col)) = ShipmentTotal(col, items_df, cfg)
        /\ summary.FOB_total_BRL = Zero
        /\ summary.Freight_total_BRL = Zero

C21_Witness ==
    /\ Computed
    /\ cfg.fx_rate_usd_brl = Zero
    /\ RLt(cfg.icms_rate, One)
    /\ RGt(TotalFob(items_df), Zero)
    /\ RGt(cfg.freight_international_usd, Zero)
    /\ \E i \in Rows : /\ RGt(per_item[i].Siscomex_BRL, Zero)
                       /\ RGt(per_item[i].Truck_BRL, Zero)
                       /\ RGt(per_item[i].ICMS_BRL, Zero)
                       /\ RGt(per_item[i].Landed_Cost_BRL, Zero)
    /\ RGt(summary.Final_cost_BRL, Zero)

\* share of row i in the total of a column of values, 1/n when the total is 0
ShareOf(values, i) ==
    IF RGt(RSum(values), Zero) THEN RDiv(values[i], RSum(values))
    ELSE R(1, IMax(Len(values), 1))

\* the allocation base that cfg.allocation_method selects
AllocationBase(c) ==
    CASE c.allocation_method = "WEIGHT" -> Column(items_df, "Gross_Weight")
      [] c.allocation_method = "VA" -> Column(per_item, "VA_BRL")
      [] OTHER -> FobSeries(items_df)

\* C22 as stated: every row's share of every shared cost is its share of the base that
\* cfg.allocation_method selects: FOB value by default, gross weight, customs value.
C22_AllocationFollowsMethod ==
    Computed =>
        \A col \in CostColumns : \A i \in Rows :
            per_item[i][col] =
                RMul(ShareOf(AllocationBase(cfg), i), ShipmentTotal(col, items_df, cfg))

\* C22 amended: whatever cfg.allocation_method is, every row's share of every shared
\* cost is its share of the total FOB value (1/n when that total is 0).
C22_AllocationAlwaysByFob ==
    Computed =>
        \A col \in CostColumns : \A i \in Rows :
            per_item[i][col] =
                RMul(ShareOf(FobSeries(items_df), i), ShipmentTotal(col, items_df, cfg))

\* gross weight is selected, the weight shares differ from the FOB shares, and the costs
\* are split by FOB
C22_Witness ==
    /\ Computed
    /\ cfg.allocation_method = "WEIGHT"
    /\ Len(per_item) >= 2
    /\ ShareOf(Column(items_df, "Gross_Weight"), 1) # ShareOf(FobSeries(items_df), 1)
    /\ RGt(per_item[1].Truck_BRL, Zero)
    /\ RGt(per_item[2].Truck_BRL, Zero)
    /\ per_item[1].Truck_BRL # RMul(ShareOf(Column(items_df, "Gross_Weight"), 1),
                                    cfg.trucking_brl)

\* C28: summary Final_cost_BRL is the sum of the rows' Landed_Cost_BRL and equals
\* FOB_total_BRL + the nine shipment-level cost totals + Tax_paid_total_BRL -
\* Tax_credit_total_BRL.
C28_ShipmentTotalIdentity ==
    Computed =>
        /\ summary.Final_cost_BRL = RSum(Column(per_item, "Landed_Cost_BRL"))
        /\ summary.Final_cost_BRL =
               RSub(RAdd(RAdd(summary.FOB_total_BRL,
                              RSum([k \in 1..9 |->
                                       ShipmentTotal(CostColumnSeq[k], items_df, cfg)])),
                         summary.Tax_paid_total_BRL),
                    summary.Tax_credit_total_BRL)

C28_Witness ==
    /\ Computed
    /\ Len(per_item) >= 2
    /\ RGt(TotalFob(items_df), Zero)
    /\ \A col \in CostColumns : RGt(ShipmentTotal(col, items_df, cfg), Zero)
    /\ RGt(summary.Tax_credit_total_BRL, Zero)
    /\ RGt(summary.Tax_paid_total_BRL, summary.Tax_credit_total_BRL)
    /\ RGt(summary.Final_cost_BRL, summary.FOB_total_BRL)

-----------------------------------------------------------------------------
(* Properties of two engine runs (specification SpecPair).                 *)

PairComputed == per_item # <<>> /\ per_item2 # <<>>

\* C5: with everything else fixed (quantities, shared costs and fx >= 0, rates in
\* [0, 1)), raising one item's FOB_Unit_USD never lowers that item's Unit_Cost_BRL,
\* the step from total FOB = 0 to total FOB > 0 included.
C5_UnitCostMonotone ==
    (PairComputed /\ RLt(items_df[item_idx].FOB_Unit_USD, items_df2[item_idx].FOB_Unit_USD)) =>
        RLe(per_item[item_idx].Unit_Cost_BRL, per_item2[item_idx].Unit_Cost_BRL)

\* the raised price takes the shipment from equal split to proportional allocation
C5_Witness ==
    /\ PairComputed
    /\ Len(items_df) >= 2
    /\ TotalFob(items_df) = Zero
    /\ RGt(TotalFob(items_df2), Zero)
    /\ RGt(cfg.siscomex_brl, Zero)
    /\ RLt(per_item[item_idx].Siscomex_BRL, per_item2[item_idx].Siscomex_BRL)
    /\ RLt(per_item[item_idx].Unit_Cost_BRL, per_item2[item_idx].Unit_Cost_BRL)

-----------------------------------------------------------------------------
(* Properties of two engine runs that differ in regime (SpecRegimes).      *)

\* one of the four creditable taxes of the row is positive
SomeCreditableTax(row) ==
    \/ RGt(row.IPI_BRL, Zero)
    \/ RGt(row.PIS_BRL, Zero)
    \/ RGt(row.COFINS_BRL, Zero)
    \/ RGt(row.ICMS_BRL, Zero)

\* simples pays the gross tax, each row's Landed_Cost_BRL is ordered simples >= presumido
\* >= real, and simples is strictly above real when a creditable tax is positive
RegimeOrdering ==
    \A i \in Rows :
        /\ cfg.regime = "simples" =>
               /\ per_item[i].Tax_Credit_BRL = Zero
               /\ per_item[i].net_tax_total = per_item[i].Tax_paid_total_BRL
        /\ RGe(per_item[i].Landed_Cost_BRL, per_item2[i].Landed_Cost_BRL)
        /\ (cfg.regime = "simples" /\ cfg2.regime = "real"
               /\ SomeCreditableTax(per_item[i])) =>
               RGt(per_item[i].Landed_Cost_BRL, per_item2[i].Landed_Cost_BRL)

\* C20 as stated: for the same items and configs differing only in regime (purpose
\* resale), simples has net_tax_total = the gross tax paid, every row's Landed_Cost_BRL
\* satisfies simples >= presumido >= real, and simples > real whenever the row's IPI, PIS,
\* COFINS or ICMS amount is positive.
C20_RegimeOrdering ==
    PairComputed => RegimeOrdering

\* the ordering does hold for every ICMS rate below 1
C20_RegimeOrderingRateBelowOne ==
    (PairComputed /\ RLt(cfg.icms_rate, One)) => RegimeOrdering

\* the strict case is among the inputs: simples against real with positive taxes
C20_StrictCaseReached ==
    ~(/\ PairComputed
      /\ cfg.regime = "simples"
      /\ cfg2.regime = "real"
      /\ InUnitInterval(cfg.icms_rate)
      /\ \E i \in Rows : RGt(per_item[i].Landed_Cost_BRL, per_item2[i].Landed_Cost_BRL))

-----------------------------------------------------------------------------
(* Properties of two engine runs whose configs differ in the local costs   *)
(* (specification SpecLocal).                                              *)

TaxColumns == {"VA_BRL", "II_BRL", "IPI_BRL", "PIS_BRL", "COFINS_BRL", "ICMS_BRL",
               "Tax_Credit_BRL"}

\* C27: two runs on the same items whose configs differ only in trucking_brl,
\* local_port_costs_brl or other_local_costs_brl give every item the same VA_BRL, II,
\* IPI, PIS, COFINS, ICMS and Tax_Credit_BRL.
C27_LocalCostsOutsideTaxBases ==
    PairComputed =>
        /\ Len(per_item2) = Len(per_item)
        /\ \A i \in Rows : \A col \in TaxColumns : per_item2[i][col] = per_item[i][col]

\* the local costs differ, taxes are due, and the landed cost differs
C27_Witness ==
    /\ PairComputed
    /\ cfg2.trucking_brl # cfg.trucking_brl
    /\ \E i \in Rows :
           /\ RGt(per_item[i].ICMS_BRL, Zero)
           /\ RGt(per_item[i].Tax_Credit_BRL, Zero)
           /\ per_item2[i].Direct_costs_BRL # per_item[i].Direct_costs_BRL
           /\ per_item2[i].Landed_Cost_BRL # per_item[i].Landed_Cost_BRL
           /\ per_item2[i].Unit_Cost_BRL # per_item[i].Unit_Cost_BRL

-----------------------------------------------------------------------------
(* Properties of solve_reverse_fob_for_item (specification SpecSolver).    *)

Returned == pc = "done"

\* a very large unit price
LargePrice == R(1024, 1)

\* the target lies strictly between the unit cost at price 0 and at a very large price
TargetBetween ==
    /\ RLt(cost_min, target_unit_brl)
    /\ RLt(target_unit_brl, UnitCostAt(items_df, cfg, item_idx, LargePrice))

\* re-running the engine with the returned price gives a unit cost within tol of the target
RoundTripWithinTol ==
    RLe(RAbs(RSub(UnitCostAt(items_df, cfg, item_idx, ret[1]), target_unit_brl)), tol)

\* total FOB of the rows other than the selected one
OthersFob ==
    RSub(TotalFob(items_df),
         RMul(items_df[item_idx].Quantity, items_df[item_idx].FOB_Unit_USD))

\* C4 as stated: for a target strictly between the unit cost at price 0 and the unit
\* cost at a very large price, the returned price re-run through the engine gives a
\* unit cost within tol of the target.
C4_RoundTrip ==
    (Returned /\ TargetBetween) => RoundTripWithinTol

\* the round trip does hold, within the iteration bound, whenever the selected item's
\* allocation share is continuous in its price: it is the only row, another row has
\* FOB > 0, or there is no shared cost to allocate
C4_RoundTripContinuousShare ==
    (/\ Returned
     /\ TargetBetween
     /\ \/ Len(items_df) = 1
        \/ RGt(OthersFob, Zero)
        \/ \A col \in CostColumns : ShipmentTotal(col, items_df, cfg) = Zero)
    => RoundTripWithinTol

\* C7 as stated: when the target is at or below the zero-price floor (target <= cost at
\* price 0 + tol) or is not reached after the 25 doublings, the solver returns
\* (None, None) and not a numeric pair.
C7_InfeasibleSignal ==
    (/\ Returned
     /\ \/ RLe(target_unit_brl, RAdd(cost_min, tol))
        \/ /\ n_expand = ExpandCap
           /\ RLt(cost_high, RSub(target_unit_brl, tol)))
    => ret = <<NoneVal, NoneVal>>

\* the expansion cap alone: 25 doublings without reaching the target
C7_InfeasibleAfterCap ==
    (Returned /\ n_expand = ExpandCap /\ RLt(cost_high, RSub(target_unit_brl, tol)))
    => ret = <<NoneVal, NoneVal>>

\* engine evaluations made so far: one at price 0, one per iteration of either loop
Evaluations == (IF pc = "floor" THEN 0 ELSE 1) + n_expand + n_bisect

\* before the return some statement of the solver can always be executed
CanStep ==
    \/ pc \in {"floor", "expanded", "return", "done"}
    \/ pc = "expand" /\ n_expand < ExpandCap
    \/ pc = "bisect" /\ n_bisect < max_iter

\* C12: solve_reverse_fob_for_item always returns, and until then it has run the engine at
\* most once at price 0, at most 25 times in the expansion loop and at most max_iter times
\* in the bisection loop: at most 1 + 25 + max_iter evaluations, for reachable and
\* unreachable targets and for fx = 0.
C12_TerminatesWithinCaps ==
    /\ [](/\ n_expand <= ExpandCap
          /\ n_bisect <= max_iter
          /\ Evaluations <= 1 + ExpandCap + max_iter
          /\ CanStep)
    /\ <>Returned

\* an unreachable target at fx = 0: the expansion loop runs to its cap and the solver returns
C12_Witness ==
    /\ Returned
    /\ cfg.fx_rate_usd_brl = Zero
    /\ n_expand = ExpandCap
    /\ Evaluations = 1 + ExpandCap
    /\ RLt(cost_high, RSub(target_unit_brl, tol))

\* the bisection loop runs to its cap
C12_BisectionCapReached == ~(Returned /\ n_bisect = max_iter /\ max_iter > 0)

\* the columns of a table that the engine reads
InputColumns(row) ==
    [Quantity |-> row.Quantity, FOB_Unit_USD |-> row.FOB_Unit_USD, II_rate |-> row.II_rate,
     IPI_rate |-> row.IPI_rate, PIS_rate |-> row.PIS_rate, COFINS_rate |-> row.COFINS_rate,
     ICMS_rate |-> row.ICMS_rate]

\* table df has the rows of base, except possibly for FOB_Unit_USD of row idx
DiffersOnlyInPrice(df, base, idx) ==
    /\ Len(df) = Len(base)
    /\ \A i \in 1..Len(base) :
           InputColumns(df[i]) =
               IF i = idx
               THEN InputColumns([base[i] EXCEPT !.FOB_Unit_USD = df[i].FOB_Unit_USD])
               ELSE InputColumns(base[i])

\* C13: no step of the solver, the engine calls it makes included, changes base_df or
\* cfg, and the table of every engine call (whose input columns the returned table
\* carries) is base_df with at most FOB_Unit_USD of the selected item changed.
C13_NoSideEffects ==
    [][/\ items_df' = items_df
       /\ cfg' = cfg
       /\ per_item' # <<>> => DiffersOnlyInPrice(per_item', items_df, item_idx)]_vars

C13_Witness ==
    /\ Returned
    /\ Len(items_df) >= 2
    /\ n_bisect > 0
    /\ per_item[item_idx].FOB_Unit_USD # items_df[item_idx].FOB_Unit_USD
    /\ RGt(items_df[item_idx].FOB_Unit_USD, Zero)

\* the engine half of C13, under Spec and SpecPair: a call of compute_landed_cost leaves
\* the caller's table and config as they were
C13_EngineLeavesInputs == [][items_df' = items_df /\ cfg' = cfg]_vars

\* C24: on every return path (floor, expansion cap, bisection) the returned achieved unit
\* cost is exactly the Unit_Cost_BRL the engine gives for the item at the returned price.
C24_ReturnedCostIsCostAtReturnedPrice ==
    Returned => ret[2] = UnitCostAt(items_df, cfg, item_idx, ret[1])

\* the same on the floor path alone
C24_FloorPath ==
    (Returned /\ n_expand = 0) => ret[2] = UnitCostAt(items_df, cfg, item_idx, ret[1])

\* the same on the paths whose expansion loop left by its break
C24_ExpansionBroke ==
    (Returned /\ n_expand > 0 /\ RGe(cost_high, target_unit_brl))
    => ret[2] = UnitCostAt(items_df, cfg, item_idx, ret[1])

\* at the start of a bisection iteration
AtBisection == pc = "bisect"

Bracket ==
    /\ RLe(Zero, low)
    /\ RLt(low, high)
    /\ RLt(UnitCostAt(items_df, cfg, item_idx, low), target_unit_brl)
    /\ RGe(UnitCostAt(items_df, cfg, item_idx, high), target_unit_brl)

\* one bisection iteration halves high - low
Halves ==
    (pc = "bisect" /\ n_bisect' = n_bisect + 1)
    => RSub(high', low') = RDiv(RSub(high, low), R(2, 1))

\* C25: at the start of each bisection iteration 0 <= low < high, the cost at low is
\* below the target and the cost at high is at or above it; each iteration halves
\* high - low.
C25_BracketInvariant == [](AtBisection => Bracket) /\ [][Halves]_vars

\* the bracket does hold whenever the expansion loop left by its break
C25_BracketWhenExpansionBroke ==
    (AtBisection /\ RGe(cost_high, target_unit_brl)) => Bracket

\* the expansion loop ran to its cap and ended within tol below the target: the bisection
\* starts with the cost at high below the target
C25_CapWithinTolReached ==
    ~(/\ AtBisection
      /\ n_expand = ExpandCap
      /\ RLt(cost_high, target_unit_brl)
      /\ RLt(UnitCostAt(items_df, cfg, item_idx, high), target_unit_brl))

\* distance of a cost to the target
Dist(cost) == RAbs(RSub(cost, target_unit_brl))

\* the best sample is at least as close as the upper-bound sample and the last midpoint
BestIsClosest ==
    /\ RLe(Dist(best_cost), Dist(cost_high))
    /\ n_bisect > 0 => RLe(Dist(best_cost), Dist(cost_mid))

\* a bisection iteration never replaces the best sample by a farther one
BestNeverWorse ==
    (pc = "bisect" /\ n_bisect' = n_bisect + 1) => RLe(Dist(best_cost'), Dist(best_cost))

ReturnedFromBisection == Returned /\ n_bisect > 0

\* C26: on return from the bisection the returned cost is the best sample: its distance to
\* the target is at most that of the upper-bound sample and of every midpoint evaluated
\* (the best sample is at least as close as each new midpoint and is never replaced by a
\* farther one); when the loop stopped on a midpoint within tol, the returned cost is
\* within tol of the target.
C26_BestSampleTracking ==
    /\ []((pc \in {"bisect", "return"}) => BestIsClosest)
    /\ [][BestNeverWorse]_vars
    /\ [](ReturnedFromBisection =>
             /\ ret = <<best_fob, best_cost>>
             /\ BestIsClosest
             /\ RLe(Dist(cost_mid), tol) => RLe(Dist(ret[2]), tol))

\* the loop stopped early, after three midpoints or more, on a midpoint within tol that is
\* closer to the target than the upper-bound sample
C26_Witness ==
    /\ ReturnedFromBisection
    /\ n_bisect >= 3
    /\ n_bisect < max_iter
    /\ RLt(Dist(ret[2]), Dist(cost_high))
    /\ RLe(Dist(ret[2]), tol)

\* the loop also runs out of iterations with its last midpoint farther than tol
C26_LoopRanOutReached ==
    ~(ReturnedFromBisection /\ n_bisect = max_iter /\ RGt(Dist(cost_mid), tol))

-----------------------------------------------------------------------------
(* Properties of the NCM field (specification SpecNcm).                    *)

\* C23: when the typed text has digits, the suggestion list is exactly the rows of the
\* loaded table whose 8-digit code starts with the typed digits.
C23_NcmPrefixSearch ==
    normalize_ncm_search(ncm_input) # <<>> =>
        matches = {r \in NCM_TABLE.rows : StartsWith(r.NCM8, normalize_ncm_search(ncm_input))}

\* the list the form shows: no row, whatever is typed
C23_NoSuggestionListed == matches = {}

\* a dotted prefix is typed that two final codes of the table start with
C23_PrefixTypedReached ==
    ~(/\ Len(ncm_input) > Len(normalize_ncm_search(ncm_input))
      /\ Cardinality({r \in NCM_TABLE.rows :
                         StartsWith(r.NCM8, normalize_ncm_search(ncm_input))}) = 2)

-----------------------------------------------------------------------------
(* Properties of extract_tipi_from_pdf (specification SpecTipi).           *)

TableReturned == tipi_df # <<>>

\* the non-blank lines of the pages within the limit, in reading order
ScannedLines ==
    SelectSeq(JoinParts(SubSeq(pdf, 1, last_page_index)), LAMBDA line : line # <<>>)

EndsInRate(line) == line[Len(line)] \in RateTokens

\* a line that starts with an NCM and is not a complete row
OpensBlock(line) == MatchesNcmOnly(line) /\ ~MatchesNcmFull(line)

IsContinuation(line) == ~MatchesNcmOnly(line)

\* line i opens a block, lines i+1..j continue it, and line j is the first of them that
\* ends in a rate token
ClosedAt(L, i, j) ==
    /\ i < j
    /\ OpensBlock(L[i])
    /\ \A k \in (i + 1)..j : IsContinuation(L[k])
    /\ \A k \in (i + 1)..(j - 1) : ~EndsInRate(L[k])
    /\ EndsInRate(L[j])

\* the words of the fragments of block i..j, in order
Fragments(L, i, j) ==
    Tail(L[i]) \o JoinParts(SubSeq(L, i + 1, j - 1)) \o SubSeq(L[j], 1, Len(L[j]) - 1)

\* the row expected of block i..j: the joined description is trimmed of the hyphens at
\* its ends
BlockRow(L, i, j) ==
    [NCM |-> L[i][1], Descricao |-> StripDashes(Fragments(L, i, j)),
     Aliquota |-> L[j][Len(L[j])]]

\* the row expected of a complete line
FullRow(line) ==
    [NCM |-> line[1], Descricao |-> StripDashes(SubSeq(line, 2, Len(line) - 1)),
     Aliquota |-> line[Len(line)]]

ExpectedRows(L) ==
    {FullRow(L[i]) : i \in {k \in 1..Len(L) : MatchesNcmFull(L[k])}}
    \cup {BlockRow(L, ij[1], ij[2]) :
              ij \in {p \in (1..Len(L)) \X (1..Len(L)) : ClosedAt(L, p[1], p[2])}}

C30_PendingDroppedReached ==
    ~(/\ TableReturned
      /\ Len(ScannedLines) = 3
      /\ OpensBlock(ScannedLines[1]) /\ IsContinuation(ScannedLines[2])
      /\ ~EndsInRate(ScannedLines[2])
      /\ OpensBlock(ScannedLines[3])
      /\ current # <<>>
      /\ tipi_df[1] = <<>>)

\* the joined description loses the hyphens at its ends
C30_HyphenTrimmedReached ==
    ~(/\ TableReturned
      /\ \E k \in 1..Len(tipi_df[1]) :
             \E i \in 1..Len(ScannedLines) :
                 /\ MatchesNcmFull(ScannedLines[i])
                 /\ tipi_df[1][k] = FullRow(ScannedLines[i])
                 /\ tipi_df[1][k].Descricao # SubSeq(ScannedLines[i], 2,
                                                     Len(ScannedLines[i]) - 1))

-----------------------------------------------------------------------------
(* Properties of the items list and the reverse FOB block (specification   *)
(* SpecUi).                                                                *)

C29_MissingIndexReached ==
    ~(/\ reverse_result # <<>>
      /\ items_df # <<>>
      /\ reverse_result[1].item_idx > Len(items_df))

\* applied to the item it was computed for
C29_AppliedToSolvedItemReached ==
    ~(\E change \in applied : change[1] = change[2])

====
